---- MODULE Spec2Model ----
(***************************************************************************)
(* A model of the grid trading engine: the GridManager lattice of price   *)
(* levels (core/grid_management/grid_manager.py), the order ledger        *)
(* (core/storage/bot_database.py) and the strategy control loop           *)
(* (strategies/grid_trading_strategy.py).                                  *)
(*                                                                         *)
(* Prices are integers.  Grid configurations are restricted to those for  *)
(* which the generated rungs are whole numbers, so that the arithmetic of *)
(* the source is reproduced exactly.                                       *)
(***************************************************************************)
EXTENDS Integers, Sequences, FiniteSets, TLC

VARIABLES
    \* ---- GridManager ----
    strategy_type,      \* "SIMPLE_GRID" | "HEDGED_GRID"
    price_grids,        \* sequence of rung prices (<< >> before initialization)
    central_price,
    sorted_buy_grids,
    sorted_sell_grids,
    grid_levels,        \* price -> [state, orders, paired_buy_level, paired_sell_level]
    pairCalls,          \* number of pair_grid_levels calls made so far
    \* ---- BotDatabase ----
    rows,               \* the grid_orders table, in insertion order
    \* ---- GridTradingStrategy ----
    trading_mode,       \* "LIVE" | "PAPER_TRADING"
    investment_amount,  \* config_manager.get_investment_amount()
    wallet_free_fiat,   \* the exchange wallet's free quote-currency balance
    running,            \* self._running
    runPc,              \* where run() / _run_live_or_paper_trading stands
    setupCalls,         \* calls of balance_tracker.setup_balances
    tracker_fiat,       \* fiat balance installed by setup_balances ({} before)
    listenCalls,        \* calls of exchange_service.listen_to_ticker_updates
    grid_orders_initialized,  \* closure variable of on_ticker_update
    last_price,         \* closure variable of on_ticker_update ({} is None)
    tickPc,             \* where the on_ticker_update invocation in progress stands
    tickPrice,          \* its current_price
    ticks,              \* invocations of on_ticker_update so far
    metrics,            \* len(self.live_trading_metrics)
    cancelCalls,        \* calls of order_manager.cancel_all_open_orders by the gate
    cleanupWarnings,    \* "Cleanup warning" entries logged by the gate
    zoneCalls,          \* calls of grid_manager.update_zones_based_on_price by the gate
    purchaseCalls,      \* calls of order_manager.perform_initial_purchase
    gridOrderCalls,     \* calls of order_manager.initialize_grid_orders
    tpslCalls,          \* calls of _handle_take_profit_stop_loss
    stopPublished,      \* STOP_BOT events published
    gate_failed,        \* the initialization gate has logged its critical failure
    \* ---- GridTradingStrategy.stop ----
    stopPc,             \* where the stop() invocation stands
    sell_assets,        \* its argument
    stopLog,            \* the calls it has made to its collaborators, in order
    stops,              \* invocations of stop() so far
    \* ---- server ----
    active_instances,   \* the bot ids registered in active_instances
    stopReq,            \* bot id -> where the /stop request for it stands
    \* ---- server, with /stop requests that overlap ----
    stopRequests,       \* the /stop requests received: [bot_id, pc, instance held]
    instanceOf,         \* bot id -> the bot registered under it (0 when absent)
    botsCreated,        \* GridTradingBot objects created by start_bot so far
    liveBots,           \* <<bot id, bot>> of the bots created whose _stop has not returned
    startReply,         \* the answer to the latest /start request
    \* ---- _calculate_price_grids_and_central_price, in floating point ----
    calc,               \* the configuration read, and the (grids, central_price) returned
    \* ---- on_ticker_update invoked while an earlier invocation is suspended ----
    invocations,        \* invocation number -> [pc, price] of that invocation
    \* ---- _run_backtest ----
    btPc,               \* where the candle loop stands
    candle,             \* candles taken from the data so far
    fillCalls,          \* calls of order_manager.simulate_order_fills
    \* ---- _handle_take_profit_stop_loss ----
    tpsl                \* the configuration, and the evaluation in progress

gridVars == <<strategy_type, price_grids, central_price, sorted_buy_grids,
              sorted_sell_grids, grid_levels, pairCalls>>

ledgerVars == <<rows>>

stratVars == <<trading_mode, investment_amount, wallet_free_fiat, running, runPc,
               setupCalls, tracker_fiat, listenCalls, grid_orders_initialized, last_price,
               tickPc, tickPrice, ticks, metrics, cancelCalls, cleanupWarnings, zoneCalls,
               purchaseCalls, gridOrderCalls, tpslCalls, stopPublished, gate_failed>>

stopVars == <<stopPc, sell_assets, stopLog, stops>>

registryVars == <<stopRequests, instanceOf, botsCreated, liveBots, startReply>>

serverVars == <<active_instances, stopReq, registryVars>>

calcVars == <<calc>>

reentrantVars == <<invocations>>

backtestVars == <<btPc, candle, fillCalls>>

tpslVars == <<tpsl>>

vars == <<gridVars, ledgerVars, stratVars, stopVars, serverVars, calcVars, reentrantVars,
          backtestVars, tpslVars>>

(***************************************************************************)
(* Bounds of the model.                                                    *)
(***************************************************************************)
MaxNumGrids == 2
MaxOrders == 3
MaxPairCalls == 1
MaxTickPrice == 4
MaxRows == 2
MaxLedgerPrice == 2
MaxFiat == 2
MaxTicks == 3
MaxPairings == 2
MaxStops == 1
MaxBots == 3
MantissaBits == 3
MaxFloatPrice == 8
MaxGridCount == 4
MaxInvocations == 2
MaxCandles == 3
MaxCrypto == 1
MaxStopRequests == 2
MaxInstances == 3

(***************************************************************************)
(* Enumerations.                                                           *)
(***************************************************************************)
SIMPLE_GRID == "SIMPLE_GRID"
HEDGED_GRID == "HEDGED_GRID"
StrategyTypes == {SIMPLE_GRID, HEDGED_GRID}

ARITHMETIC == "ARITHMETIC"
GEOMETRIC == "GEOMETRIC"

BUY == "BUY"
SELL == "SELL"
OrderSides == {BUY, SELL}

READY_TO_BUY == "READY_TO_BUY"
READY_TO_SELL == "READY_TO_SELL"
READY_TO_BUY_OR_SELL == "READY_TO_BUY_OR_SELL"
WAITING_FOR_BUY_FILL == "WAITING_FOR_BUY_FILL"
WAITING_FOR_SELL_FILL == "WAITING_FOR_SELL_FILL"
GridCycleStates == {READY_TO_BUY, READY_TO_SELL, READY_TO_BUY_OR_SELL,
                    WAITING_FOR_BUY_FILL, WAITING_FOR_SELL_FILL}
WaitingStates == {WAITING_FOR_BUY_FILL, WAITING_FOR_SELL_FILL}

OPEN == "OPEN"
CLOSED == "CLOSED"
CANCELED == "CANCELED"
OrderStatuses == {OPEN, CLOSED, CANCELED}

(***************************************************************************)
(* Helpers on sequences.                                                   *)
(***************************************************************************)
Range(s) == {s[i] : i \in DOMAIN s}

\* list.index(x): the first position holding x (0 when absent)
IndexOf(s, x) ==
    IF x \in Range(s) THEN CHOOSE i \in DOMAIN s : s[i] = x /\ \A j \in 1..(i - 1) : s[j] # x
    ELSE 0

\* sorted(list)
Sorted(s) == SortSeq(s, LAMBDA a, b : a < b)

RECURSIVE Pow(_, _)
Pow(b, e) == IF e = 0 THEN 1 ELSE b * Pow(b, e - 1)

(***************************************************************************)
(* _calculate_price_grids_and_central_price                                *)
(***************************************************************************)
\* an even grid count is raised by one so that a centre rung exists
PointsToGenerate(num_grids) == IF num_grids % 2 = 0 THEN num_grids + 1 ELSE num_grids

\* np.linspace(bottom, top, n)
Linspace(bottom, top, n) ==
    IF n = 1 THEN <<bottom>>
    ELSE [i \in 1..n |-> bottom + ((i - 1) * (top - bottom)) \div (n - 1)]

\* the ratio (top / bottom) ** (1 / (n - 1)), when it is a whole number (0 otherwise)
GeometricRatio(bottom, top, n) ==
    IF \E r \in 1..top : bottom * Pow(r, n - 1) = top
    THEN CHOOSE r \in 1..top : bottom * Pow(r, n - 1) = top
    ELSE 0

CalculatePriceGrids(cfg) ==
    LET n == PointsToGenerate(cfg.num_grids) IN
    IF cfg.spacing = ARITHMETIC THEN Linspace(cfg.bottom, cfg.top, n)
    ELSE IF n <= 1 THEN <<cfg.bottom>>
    ELSE [i \in 1..n |-> cfg.bottom * Pow(GeometricRatio(cfg.bottom, cfg.top, n), i - 1)]

CalculateCentralPrice(cfg) ==
    LET n == PointsToGenerate(cfg.num_grids)
        grids == CalculatePriceGrids(cfg) IN
    IF cfg.spacing = ARITHMETIC THEN (cfg.top + cfg.bottom) \div 2
    ELSE IF n <= 1 THEN cfg.bottom
    ELSE grids[(Len(grids) \div 2) + 1]

\* the configurations whose rungs and centre are whole numbers
ExactConfig(cfg) ==
    LET n == PointsToGenerate(cfg.num_grids) IN
    IF cfg.spacing = ARITHMETIC
    THEN (cfg.top + cfg.bottom) % 2 = 0 /\ (n = 1 \/ (cfg.top - cfg.bottom) % (n - 1) = 0)
    ELSE n <= 1 \/ GeometricRatio(cfg.bottom, cfg.top, n) > 1

Ranges == {[bottom |-> 1, top |-> 3, spacing |-> ARITHMETIC]}

Configs ==
    {cfg \in {[bottom |-> r.bottom, top |-> r.top, spacing |-> r.spacing, num_grids |-> k] :
                 r \in Ranges, k \in 1..MaxNumGrids} : ExactConfig(cfg)}

(***************************************************************************)
(* GridLevel                                                               *)
(***************************************************************************)
\* GridLevel(price, state): no orders, no paired levels (a pair reference is
\* the empty set or the singleton of the paired rung's price)
NewGridLevel(state) ==
    [state |-> state, orders |-> << >>, paired_buy_level |-> {}, paired_sell_level |-> {}]

\* GridLevel.add_order: the order is appended to the level's orders
AddOrder(level, order) == [level EXCEPT !.orders = Append(@, order)]

OpenOrders(level) == {i \in DOMAIN level.orders : level.orders[i].status = OPEN}

TotalOrders(gl) ==
    LET RECURSIVE Sum(_)
        Sum(S) == IF S = {} THEN 0
                  ELSE LET x == CHOOSE y \in S : TRUE IN Len(gl[x].orders) + Sum(S \ {x})
    IN Sum(DOMAIN gl)

(***************************************************************************)
(* initialize_grids_and_levels                                             *)
(***************************************************************************)
InitialBuyGrids(st, grids, central) ==
    IF st = SIMPLE_GRID THEN SelectSeq(grids, LAMBDA p : p <= central)
    ELSE SubSeq(grids, 1, Len(grids) - 1)

InitialSellGrids(st, grids, central) ==
    IF st = SIMPLE_GRID THEN SelectSeq(grids, LAMBDA p : p > central)
    ELSE SubSeq(grids, 2, Len(grids))

\* mutant of InitialLevels: the rung at the central price starts on the sell side
InitialLevelsBelowCentre(st, grids, central) ==
    IF st = SIMPLE_GRID
    THEN [p \in Range(grids) |->
            NewGridLevel(IF p < central THEN READY_TO_BUY ELSE READY_TO_SELL)]
    ELSE [p \in Range(grids) |->
            NewGridLevel(IF p # grids[Len(grids)] THEN READY_TO_BUY_OR_SELL ELSE READY_TO_SELL)]

InitialLevels(st, grids, central) ==
    IF st = SIMPLE_GRID
    THEN [p \in Range(grids) |->
            NewGridLevel(IF p <= central THEN READY_TO_BUY ELSE READY_TO_SELL)]
    ELSE [p \in Range(grids) |->
            NewGridLevel(IF p # grids[Len(grids)] THEN READY_TO_BUY_OR_SELL ELSE READY_TO_SELL)]

\* cfg: what _extract_grid_config reads from the config manager
InitializeGridsAndLevels(cfg) ==
    /\ price_grids = << >>
    /\ LET grids == CalculatePriceGrids(cfg)
           central == CalculateCentralPrice(cfg) IN
       /\ price_grids' = grids
       /\ central_price' = central
       /\ sorted_buy_grids' = InitialBuyGrids(strategy_type, grids, central)
       /\ sorted_sell_grids' = InitialSellGrids(strategy_type, grids, central)
       /\ grid_levels' = InitialLevels(strategy_type, grids, central)
    /\ UNCHANGED <<strategy_type, pairCalls, ledgerVars, stratVars>>
    /\ UNCHANGED <<stopVars, serverVars, calcVars, reentrantVars, backtestVars, tpslVars>>

(***************************************************************************)
(* update_zones_based_on_price                                             *)
(***************************************************************************)
\* mutant of IdealState: a rung at the current price counts as below it
IdealStateInclusive(price, current_price) ==
    IF price <= current_price THEN READY_TO_BUY ELSE READY_TO_SELL

IdealState(price, current_price) ==
    IF price < current_price THEN READY_TO_BUY ELSE READY_TO_SELL

\* mutant of RealignedState: the idle check is dropped, every rung is rewritten
RealignedStateUnguarded(state, price, current_price) == IdealState(price, current_price)

\* the state of one rung after the loop body has run for it
RealignedState(state, price, current_price) ==
    IF state \in {READY_TO_BUY, READY_TO_SELL} THEN IdealState(price, current_price)
    ELSE state

UpdateZonesLevels(st, grids, gl, current_price) ==
    IF st # SIMPLE_GRID THEN gl
    ELSE [p \in DOMAIN gl |->
            IF p \in Range(grids)
            THEN [gl[p] EXCEPT !.state = RealignedState(@, p, current_price)]
            ELSE gl[p]]

UpdateZonesBuyGrids(st, grids, buys, current_price) ==
    IF st # SIMPLE_GRID THEN buys
    ELSE SelectSeq(grids, LAMBDA p : p < current_price)

\* mutant of UpdateZonesSellGrids: a rung at the current price is left out
UpdateZonesSellGridsAbove(st, grids, sells, current_price) ==
    IF st # SIMPLE_GRID THEN sells
    ELSE SelectSeq(grids, LAMBDA p : p > current_price)

UpdateZonesSellGrids(st, grids, sells, current_price) ==
    IF st # SIMPLE_GRID THEN sells
    ELSE SelectSeq(grids, LAMBDA p : ~(p < current_price))

\* the call's effect on the GridManager
UpdateZones(current_price) ==
    /\ grid_levels' = UpdateZonesLevels(strategy_type, price_grids, grid_levels, current_price)
    /\ sorted_buy_grids' =
           UpdateZonesBuyGrids(strategy_type, price_grids, sorted_buy_grids, current_price)
    /\ sorted_sell_grids' =
           UpdateZonesSellGrids(strategy_type, price_grids, sorted_sell_grids, current_price)
    /\ UNCHANGED <<strategy_type, price_grids, central_price, pairCalls>>

UpdateZonesBasedOnPrice(current_price) ==
    /\ price_grids # << >>
    /\ UpdateZones(current_price)
    /\ UNCHANGED <<ledgerVars, stratVars>>
    /\ UNCHANGED <<stopVars, serverVars, calcVars, reentrantVars, backtestVars, tpslVars>>

(***************************************************************************)
(* pair_grid_levels                                                        *)
(***************************************************************************)
\* the two assignments are made one after the other, as in the source
PairLevels(gl, source, target, pairing_type) ==
    IF pairing_type = "buy"
    THEN LET g1 == [gl EXCEPT ![source].paired_buy_level = {target}]
         IN [g1 EXCEPT ![target].paired_sell_level = {source}]
    ELSE LET g1 == [gl EXCEPT ![source].paired_sell_level = {target}]
         IN [g1 EXCEPT ![target].paired_buy_level = {source}]

PairGridLevels(source, target, pairing_type) ==
    /\ grid_levels' = PairLevels(grid_levels, source, target, pairing_type)
    /\ pairCalls' = pairCalls + 1
    /\ UNCHANGED <<strategy_type, price_grids, central_price,
                   sorted_buy_grids, sorted_sell_grids, ledgerVars, stratVars>>
    /\ UNCHANGED <<stopVars, serverVars, calcVars, reentrantVars, backtestVars, tpslVars>>

(***************************************************************************)
(* get_paired_sell_level: the next rung up, {} for the top rung            *)
(***************************************************************************)
\* mutant of GetPairedSellLevel: the rung below instead of the rung above
GetPairedSellLevelBelow(st, grids, price) ==
    LET sorted_prices == Sorted(grids)
        idx == IndexOf(sorted_prices, price) IN
    IF idx > 1 THEN {sorted_prices[idx - 1]} ELSE {}

GetPairedSellLevel(st, grids, price) ==
    IF st \in {SIMPLE_GRID, HEDGED_GRID}
    THEN LET sorted_prices == Sorted(grids)
             idx == IndexOf(sorted_prices, price) IN
         IF idx # 0 /\ idx + 1 <= Len(sorted_prices) THEN {sorted_prices[idx + 1]} ELSE {}
    ELSE {}

(***************************************************************************)
(* can_place_order                                                         *)
(***************************************************************************)
CanPlaceOrder(st, grids, gl, price, order_side) ==
    IF st = SIMPLE_GRID
    THEN IF order_side = BUY
         THEN /\ gl[price].state = READY_TO_BUY
              /\ \A q \in GetPairedSellLevel(st, grids, price) :
                     gl[q].state # WAITING_FOR_SELL_FILL
         ELSE IF order_side = SELL THEN gl[price].state = READY_TO_SELL
         ELSE FALSE
    ELSE IF st = HEDGED_GRID
    THEN IF order_side = BUY
         THEN gl[price].state \in {READY_TO_BUY, READY_TO_BUY_OR_SELL}
         ELSE IF order_side = SELL
         THEN gl[price].state \in {READY_TO_SELL, READY_TO_BUY_OR_SELL}
         ELSE FALSE
    ELSE FALSE

can_place_order(price, order_side) ==
    CanPlaceOrder(strategy_type, price_grids, grid_levels, price, order_side)

(***************************************************************************)
(* mark_order_pending                                                      *)
(***************************************************************************)
PendingState(state, side) ==
    IF side = BUY THEN WAITING_FOR_BUY_FILL
    ELSE IF side = SELL THEN WAITING_FOR_SELL_FILL
    ELSE state

MarkPendingLevels(gl, price, order) ==
    LET g1 == [gl EXCEPT ![price] = AddOrder(@, order)]
    IN [g1 EXCEPT ![price].state = PendingState(@, order.side)]

\* An order is placed on a rung: the caller asks can_place_order first, and the
\* new order is OPEN.
MarkOrderPending(price, side) ==
    /\ price \in DOMAIN grid_levels
    /\ TotalOrders(grid_levels) < MaxOrders
    /\ can_place_order(price, side)
    /\ grid_levels' = MarkPendingLevels(grid_levels, price, [side |-> side, status |-> OPEN])
    /\ UNCHANGED <<strategy_type, price_grids, central_price,
                   sorted_buy_grids, sorted_sell_grids, pairCalls, ledgerVars, stratVars>>
    /\ UNCHANGED <<stopVars, serverVars, calcVars, reentrantVars, backtestVars, tpslVars>>

(***************************************************************************)
(* complete_order                                                          *)
(***************************************************************************)
\* mutant of SetPairedStates: the paired level is left as it was
SetPairedStatesSkipped(gl, paired, state) == gl

\* `if grid_level.paired_..._level: grid_level.paired_..._level.state = state`
SetPairedStates(gl, paired, state) ==
    [p \in DOMAIN gl |-> IF p \in paired THEN [gl[p] EXCEPT !.state = state] ELSE gl[p]]

\* mutant of SimpleSellCompletedState: the neighbour-claim guard is dropped
SimpleSellCompletedStateUnguarded(state) == READY_TO_BUY

\* SIMPLE_GRID, SELL: a rung already claimed for a buy keeps its state
SimpleSellCompletedState(state) ==
    IF state = WAITING_FOR_BUY_FILL THEN state ELSE READY_TO_BUY

CompleteOrderLevels(st, gl, price, order_side) ==
    IF st = SIMPLE_GRID
    THEN IF order_side = BUY
         THEN LET g1 == [gl EXCEPT ![price].state = READY_TO_SELL]
              IN SetPairedStates(g1, g1[price].paired_sell_level, READY_TO_SELL)
         ELSE IF order_side = SELL
         THEN LET g1 == [gl EXCEPT ![price].state = SimpleSellCompletedState(@)]
              IN SetPairedStates(g1, g1[price].paired_buy_level, READY_TO_BUY)
         ELSE gl
    ELSE IF st = HEDGED_GRID
    THEN IF order_side = BUY
         THEN LET g1 == [gl EXCEPT ![price].state = READY_TO_BUY_OR_SELL]
              IN SetPairedStates(g1, g1[price].paired_sell_level, READY_TO_SELL)
         ELSE IF order_side = SELL
         THEN LET g1 == [gl EXCEPT ![price].state = READY_TO_BUY_OR_SELL]
              IN SetPairedStates(g1, g1[price].paired_buy_level, READY_TO_BUY)
         ELSE gl
    ELSE gl

\* An OPEN order attached to a rung is filled: the order becomes CLOSED and
\* complete_order(level, side of the order) is called.
CloseOrder(gl, price, i) == [gl EXCEPT ![price].orders[i].status = CLOSED]

CompleteOrder(price, i) ==
    /\ price \in DOMAIN grid_levels
    /\ i \in OpenOrders(grid_levels[price])
    /\ grid_levels' =
           CompleteOrderLevels(strategy_type, CloseOrder(grid_levels, price, i), price,
                               grid_levels[price].orders[i].side)
    /\ UNCHANGED <<strategy_type, price_grids, central_price,
                   sorted_buy_grids, sorted_sell_grids, pairCalls, ledgerVars, stratVars>>
    /\ UNCHANGED <<stopVars, serverVars, calcVars, reentrantVars, backtestVars, tpslVars>>

TickPrices == 0..MaxTickPrice

\* GridManager.__init__
GridInit ==
    /\ strategy_type \in StrategyTypes
    /\ price_grids = << >>
    /\ central_price = 0
    /\ sorted_buy_grids = << >>
    /\ sorted_sell_grids = << >>
    /\ grid_levels = << >>
    /\ pairCalls = 0

(***************************************************************************)
(* BotDatabase: the grid_orders table.  A row carries bot_id, order_id,    *)
(* price and status (side, quantity and the timestamps are payload that no *)
(* operation reads or changes).  Ledger prices are whole multiples of half *)
(* the lookup tolerance, so that two distinct prices can lie within it.    *)
(***************************************************************************)
Tolerance == 2

BotIds == {1, 2}
OrderIds == {"a", "b"}
LedgerPrices == 0..MaxLedgerPrice

Abs(x) == IF x < 0 THEN 0 - x ELSE x

\* _init_db: CREATE TABLE IF NOT EXISTS, no UNIQUE constraint; the table is empty
LedgerInit == rows = << >>

\* the INSERT of add_order: any row is accepted
InsertRow(table, bot_id, order_id, price) ==
    Append(table, [bot_id |-> bot_id, order_id |-> order_id, price |-> price,
                   status |-> OPEN])

add_order(bot_id, order_id, price) ==
    /\ Len(rows) < MaxRows
    /\ rows' = InsertRow(rows, bot_id, order_id, price)
    /\ UNCHANGED <<gridVars, stratVars>>
    /\ UNCHANGED <<stopVars, serverVars, calcVars, reentrantVars, backtestVars, tpslVars>>

\* the UPDATE of update_order_status: every row with that order_id
UpdateStatus(table, order_id, new_status) ==
    [i \in DOMAIN table |->
        IF table[i].order_id = order_id THEN [table[i] EXCEPT !.status = new_status]
        ELSE table[i]]

update_order_status(order_id, new_status) ==
    /\ rows' = UpdateStatus(rows, order_id, new_status)
    /\ UNCHANGED <<gridVars, stratVars>>
    /\ UNCHANGED <<stopVars, serverVars, calcVars, reentrantVars, backtestVars, tpslVars>>

\* the DELETE of clear_all_orders: every row of the bot
DeleteRows(table, bot_id) == SelectSeq(table, LAMBDA r : r.bot_id # bot_id)

clear_all_orders(bot_id) ==
    /\ rows' = DeleteRows(rows, bot_id)
    /\ UNCHANGED <<gridVars, stratVars>>
    /\ UNCHANGED <<stopVars, serverVars, calcVars, reentrantVars, backtestVars, tpslVars>>

\* mutant of OpenRowsOf: the status filter of the SELECT is dropped
OpenRowsOfAnyStatus(table, bot_id) == SelectSeq(table, LAMBDA r : r.bot_id = bot_id)

\* get_active_order_at_price: the first OPEN row of the bot within tolerance
\* ({} is None)
OpenRowsOf(table, bot_id) ==
    SelectSeq(table, LAMBDA r : r.bot_id = bot_id /\ r.status = OPEN)

get_active_order_at_price(table, bot_id, price, tolerance) ==
    LET open == OpenRowsOf(table, bot_id)
        hits == {i \in DOMAIN open : Abs(open[i].price - price) < tolerance} IN
    IF hits = {} THEN {}
    ELSE LET first == CHOOSE i \in hits : \A j \in hits : i <= j
         IN {[order_id |-> open[first].order_id, price |-> open[first].price]}

(***************************************************************************)
(* GridTradingStrategy: run() in live / paper mode and the ticker callback.*)
(* The exchange service, the order manager, the balance tracker and the    *)
(* event bus are collaborators outside the source: a call to one of them   *)
(* either returns or raises, and the calls are counted.                    *)
(***************************************************************************)
LIVE == "LIVE"
PAPER_TRADING == "PAPER_TRADING"
BACKTEST == "BACKTEST"

\* __init__: _running = True; nothing has been called yet
StratConstructed ==
    /\ investment_amount \in 1..MaxFiat
    /\ wallet_free_fiat \in 0..MaxFiat
    /\ running = TRUE
    /\ runPc = "constructed"
    /\ setupCalls = 0
    /\ tracker_fiat = {}
    /\ listenCalls = 0
    /\ grid_orders_initialized = FALSE
    /\ last_price = {}
    /\ tickPc = "idle"
    /\ tickPrice = 0
    /\ ticks = 0
    /\ metrics = 0
    /\ cancelCalls = 0
    /\ cleanupWarnings = 0
    /\ zoneCalls = 0
    /\ purchaseCalls = 0
    /\ gridOrderCalls = 0
    /\ tpslCalls = 0
    /\ stopPublished = 0
    /\ gate_failed = FALSE

\* a strategy constructed for live or paper trading
StratInit == trading_mode \in {LIVE, PAPER_TRADING} /\ StratConstructed

runVars == <<trading_mode, investment_amount, wallet_free_fiat, runPc, setupCalls,
             tracker_fiat, listenCalls>>
callVars == <<cancelCalls, cleanupWarnings, zoneCalls, purchaseCalls, gridOrderCalls, tpslCalls,
             stopPublished>>

\* initialize_strategy
InitializeStrategy(cfg) ==
    /\ runPc = "constructed"
    /\ price_grids = << >>
    /\ LET grids == CalculatePriceGrids(cfg)
           central == CalculateCentralPrice(cfg) IN
       /\ price_grids' = grids
       /\ central_price' = central
       /\ sorted_buy_grids' = InitialBuyGrids(strategy_type, grids, central)
       /\ sorted_sell_grids' = InitialSellGrids(strategy_type, grids, central)
       /\ grid_levels' = InitialLevels(strategy_type, grids, central)
    /\ UNCHANGED <<strategy_type, pairCalls, ledgerVars, stratVars>>
    /\ UNCHANGED <<stopVars, serverVars, calcVars, reentrantVars, backtestVars, tpslVars>>

\* run(): _running = True, the trigger price is read, and live / paper trading
\* starts by awaiting exchange_service.get_balance()
Run ==
    /\ runPc = "constructed"
    /\ price_grids # << >>
    /\ trading_mode # BACKTEST
    /\ running' = TRUE
    /\ runPc' = "get_balance"
    /\ UNCHANGED <<gridVars, ledgerVars, trading_mode, investment_amount, wallet_free_fiat,
                   setupCalls, tracker_fiat, listenCalls, grid_orders_initialized, last_price,
                   tickPc, tickPrice, ticks, metrics, callVars, gate_failed>>
    /\ UNCHANGED <<stopVars, serverVars, calcVars, reentrantVars, backtestVars, tpslVars>>

\* mutant of InsufficientFunds: the funds check is dropped
InsufficientFundsIgnored(actual_fiat_balance, investment) == FALSE

\* 3. Validate Funds
InsufficientFunds(actual_fiat_balance, investment) == actual_fiat_balance < investment

\* mutant of EffectiveFiatBalance: the whole free wallet balance is handed over
EffectiveFiatBalanceUncapped(actual_fiat_balance, investment) == actual_fiat_balance

\* 4. Cap the Bot's Balance to the Investment Amount
EffectiveFiatBalance(actual_fiat_balance, investment) == investment

\* get_balance() has returned or raised.  With enough funds setup_balances is
\* called with the capped balance; it may return an awaitable.
SyncBalances(raised) ==
    /\ runPc = "get_balance"
    /\ IF raised \/ InsufficientFunds(wallet_free_fiat, investment_amount)
       THEN /\ running' = FALSE
            /\ runPc' = "returned"
            /\ UNCHANGED <<setupCalls, tracker_fiat>>
       ELSE /\ setupCalls' = setupCalls + 1
            /\ tracker_fiat' = {EffectiveFiatBalance(wallet_free_fiat, investment_amount)}
            /\ runPc' = "setup_balances"
            /\ UNCHANGED running
    /\ UNCHANGED <<gridVars, ledgerVars, trading_mode, investment_amount, wallet_free_fiat,
                   listenCalls, grid_orders_initialized, last_price,
                   tickPc, tickPrice, ticks, metrics, callVars, gate_failed>>
    /\ UNCHANGED <<stopVars, serverVars, calcVars, reentrantVars, backtestVars, tpslVars>>

\* setup_balances has returned (or its awaitable has completed), or raised.
\* On return on_ticker_update is handed to listen_to_ticker_updates.
SetupBalancesDone(raised) ==
    /\ runPc = "setup_balances"
    /\ IF raised
       THEN /\ running' = FALSE
            /\ runPc' = "returned"
            /\ UNCHANGED listenCalls
       ELSE /\ listenCalls' = listenCalls + 1
            /\ runPc' = "listening"
            /\ UNCHANGED running
    /\ UNCHANGED <<gridVars, ledgerVars, trading_mode, investment_amount, wallet_free_fiat,
                   setupCalls, tracker_fiat, grid_orders_initialized, last_price,
                   tickPc, tickPrice, ticks, metrics, callVars, gate_failed>>
    /\ UNCHANGED <<stopVars, serverVars, calcVars, reentrantVars, backtestVars, tpslVars>>

\* listen_to_ticker_updates returns or raises: the trading loop is left
ListenEnds ==
    /\ runPc = "listening"
    /\ tickPc = "idle"
    /\ runPc' = "returned"
    /\ UNCHANGED <<gridVars, ledgerVars, trading_mode, investment_amount, wallet_free_fiat,
                   running, setupCalls, tracker_fiat, listenCalls, grid_orders_initialized,
                   last_price, tickPc, tickPrice, ticks, metrics, callVars, gate_failed>>
    /\ UNCHANGED <<stopVars, serverVars, calcVars, reentrantVars, backtestVars, tpslVars>>

(***************************************************************************)
(* on_ticker_update and _initialize_grid_orders_once.  One invocation runs *)
(* at a time; it is split at its awaits.                                   *)
(***************************************************************************)
\* `if not self._running: return`
HaltsPriceUpdates(is_running) == ~is_running

\* mutant of GateAlreadyPassed: the gate forgets that it has been passed
GateNeverPassed(initialized) == FALSE

\* `if grid_orders_initialized: return True`
GateAlreadyPassed(initialized) == initialized

\* mutant of RunningAfterGateFailure: the failure leaves _running as it was
RunningKeptAfterGateFailure(is_running) == is_running

\* the except branch of the gate: self._running = False
RunningAfterGateFailure(is_running) == FALSE

\* mutant of AfterGate: the callback returns as soon as the gate has answered
AfterGateReturns(initialized) == "idle"

\* `if not grid_orders_initialized: last_price = current_price; return`, and
\* otherwise the callback goes on to _handle_take_profit_stop_loss
AfterGate(initialized) == IF ~initialized THEN "idle" ELSE "take_profit_stop_loss"

\* The callback is invoked with a price.  A stopped strategy returns at once;
\* get_total_balance_value may raise (the handler logs and returns); otherwise
\* the metrics are recorded and the gate is entered.
TickBegin(current_price, raised) ==
    /\ runPc = "listening"
    /\ tickPc = "idle"
    /\ ticks < MaxTicks
    /\ ticks' = ticks + 1
    /\ tickPrice' = current_price
    /\ IF HaltsPriceUpdates(running) \/ raised
       THEN UNCHANGED <<metrics, tickPc>>
       ELSE /\ metrics' = metrics + 1
            /\ tickPc' = IF GateAlreadyPassed(grid_orders_initialized)
                         THEN "take_profit_stop_loss" ELSE "cancel_all_open_orders"
    /\ UNCHANGED <<gridVars, ledgerVars, runVars, running, grid_orders_initialized,
                   last_price, callVars, gate_failed>>
    /\ UNCHANGED <<stopVars, serverVars, calcVars, reentrantVars, backtestVars, tpslVars>>

\* mutant of CleanupSwallows: a cancellation that raises is not caught
CleanupRaiseEscapes(raised) == ~raised

\* `try: await cancel_all_open_orders() except Exception: warning`: whether
\* the call returns or raises, the gate goes on
CleanupSwallows(raised) == TRUE

\* cancel_all_open_orders has returned or raised (a raise is logged and
\* swallowed); update_zones_based_on_price runs; perform_initial_purchase is
\* awaited.  (An exception that were not caught would end the callback in the
\* handler of on_ticker_update.)
GateCleanup(raised) ==
    /\ tickPc = "cancel_all_open_orders"
    /\ cancelCalls' = cancelCalls + 1
    /\ IF CleanupSwallows(raised)
       THEN /\ cleanupWarnings' = IF raised THEN cleanupWarnings + 1 ELSE cleanupWarnings
            /\ zoneCalls' = zoneCalls + 1
            /\ UpdateZones(tickPrice)
            /\ tickPc' = "perform_initial_purchase"
       ELSE /\ tickPc' = "idle"
            /\ UNCHANGED <<gridVars, cleanupWarnings, zoneCalls>>
    /\ UNCHANGED <<ledgerVars, runVars, running, grid_orders_initialized, last_price,
                   tickPrice, ticks, metrics, purchaseCalls, gridOrderCalls, tpslCalls,
                   stopPublished, gate_failed>>
    /\ UNCHANGED <<stopVars, serverVars, calcVars, reentrantVars, backtestVars, tpslVars>>

\* the gate fails: running is cleared, the callback stores the price and returns
GateFails ==
    /\ running' = RunningAfterGateFailure(running)
    /\ gate_failed' = TRUE
    /\ grid_orders_initialized' = FALSE
    /\ last_price' = {tickPrice}
    /\ tickPc' = "idle"

\* perform_initial_purchase has returned or raised
GatePurchase(raised) ==
    /\ tickPc = "perform_initial_purchase"
    /\ purchaseCalls' = purchaseCalls + 1
    /\ IF raised THEN GateFails
       ELSE /\ tickPc' = "initialize_grid_orders"
            /\ UNCHANGED <<running, gate_failed, grid_orders_initialized, last_price>>
    /\ UNCHANGED <<gridVars, ledgerVars, runVars, tickPrice, ticks, metrics, cancelCalls,
                   cleanupWarnings, zoneCalls, gridOrderCalls, tpslCalls, stopPublished>>
    /\ UNCHANGED <<stopVars, serverVars, calcVars, reentrantVars, backtestVars, tpslVars>>

\* initialize_grid_orders has returned or raised.  On return the gate answers
\* True, the flag is set and the callback goes on to take-profit / stop-loss.
GateGridOrders(raised) ==
    /\ tickPc = "initialize_grid_orders"
    /\ gridOrderCalls' = gridOrderCalls + 1
    /\ IF raised THEN GateFails
       ELSE /\ grid_orders_initialized' = TRUE
            /\ tickPc' = AfterGate(TRUE)
            /\ UNCHANGED <<running, gate_failed, last_price>>
    /\ UNCHANGED <<gridVars, ledgerVars, runVars, tickPrice, ticks, metrics, cancelCalls,
                   cleanupWarnings, zoneCalls, purchaseCalls, tpslCalls, stopPublished>>
    /\ UNCHANGED <<stopVars, serverVars, calcVars, reentrantVars, backtestVars, tpslVars>>

\* _handle_take_profit_stop_loss has answered: triggered (STOP_BOT was
\* published, the callback returns), not triggered (the price is stored), or it
\* raised (the handler logs and returns)
TakeProfitStopLoss(outcome) ==
    /\ tickPc = "take_profit_stop_loss"
    /\ tpslCalls' = tpslCalls + 1
    /\ stopPublished' = IF outcome = "triggered" THEN stopPublished + 1 ELSE stopPublished
    /\ last_price' = IF outcome = "not_triggered" THEN {tickPrice} ELSE last_price
    /\ tickPc' = "idle"
    /\ UNCHANGED <<gridVars, ledgerVars, runVars, running, grid_orders_initialized,
                   tickPrice, ticks, metrics, cancelCalls, cleanupWarnings, zoneCalls,
                   purchaseCalls, gridOrderCalls, gate_failed>>
    /\ UNCHANGED <<stopVars, serverVars, calcVars, reentrantVars, backtestVars, tpslVars>>

(***************************************************************************)
(* run() in backtest mode: _run_backtest runs to its end and _running is   *)
(* cleared.  The candle loop itself is not part of this model.             *)
(***************************************************************************)
RunBacktest ==
    /\ runPc = "constructed"
    /\ price_grids # << >>
    /\ trading_mode = BACKTEST
    /\ running' = TRUE
    /\ runPc' = "backtest"
    /\ UNCHANGED <<gridVars, ledgerVars, trading_mode, investment_amount, wallet_free_fiat,
                   setupCalls, tracker_fiat, listenCalls, grid_orders_initialized, last_price,
                   tickPc, tickPrice, ticks, metrics, callVars, gate_failed>>
    /\ UNCHANGED <<stopVars, serverVars, calcVars, reentrantVars, backtestVars, tpslVars>>

BacktestEnds ==
    /\ runPc = "backtest"
    /\ running' = FALSE
    /\ runPc' = "returned"
    /\ UNCHANGED <<gridVars, ledgerVars, trading_mode, investment_amount, wallet_free_fiat,
                   setupCalls, tracker_fiat, listenCalls, grid_orders_initialized, last_price,
                   tickPc, tickPrice, ticks, metrics, callVars, gate_failed>>
    /\ UNCHANGED <<stopVars, serverVars, calcVars, reentrantVars, backtestVars, tpslVars>>

(***************************************************************************)
(* stop(sell_assets).  It is a coroutine of its own: it runs between the   *)
(* awaits of run() and of the ticker callback, and is split at its own     *)
(* awaits.  stopLog lists the collaborator calls it has started.           *)
(***************************************************************************)
\* stop() has not been called
StopInit ==
    /\ stopPc = "idle"
    /\ sell_assets = FALSE
    /\ stopLog = << >>
    /\ stops = 0

\* mutant of EmergencyCleanup: the trading mode is not looked at
EmergencyCleanupInAnyMode(sell, mode) == sell

\* `if sell_assets and self.trading_mode != TradingMode.BACKTEST`
EmergencyCleanup(sell, mode) == sell /\ mode # BACKTEST

\* what stop() does once a step of the emergency cleanup has returned, or has
\* raised (the except branch logs, and close_connection follows)
NextCleanupCall(call, raised) ==
    IF raised THEN "close_connection"
    ELSE IF call = "get_current_price" THEN "cancel_all_open_orders"
    ELSE IF call = "cancel_all_open_orders" THEN "liquidate_positions"
    ELSE "close_connection"

stratFrame == <<trading_mode, investment_amount, wallet_free_fiat, runPc, setupCalls,
                tracker_fiat, listenCalls, grid_orders_initialized, last_price, tickPc,
                tickPrice, ticks, metrics, callVars, gate_failed>>

\* stop(sell) is called: _running is cleared and the first await is reached
StopBegin(sell) ==
    /\ stopPc \in {"idle", "done", "raised"}
    /\ stops < MaxStops
    /\ stops' = stops + 1
    /\ sell_assets' = sell
    /\ running' = FALSE
    /\ stopPc' = IF EmergencyCleanup(sell, trading_mode) THEN "get_current_price"
                 ELSE "close_connection"
    /\ stopLog' = <<stopPc'>>
    /\ UNCHANGED <<gridVars, ledgerVars, stratFrame, serverVars, calcVars, reentrantVars, backtestVars, tpslVars>>

\* get_current_price, cancel_all_open_orders or liquidate_positions has
\* returned or raised
StopCleanupStep(raised) ==
    /\ stopPc \in {"get_current_price", "cancel_all_open_orders", "liquidate_positions"}
    /\ stopPc' = NextCleanupCall(stopPc, raised)
    /\ stopLog' = Append(stopLog, stopPc')
    /\ UNCHANGED <<gridVars, ledgerVars, stratFrame, running, sell_assets, stops,
                   serverVars, calcVars, reentrantVars, backtestVars, tpslVars>>

\* close_connection has returned (stop() returns) or raised (stop() raises)
StopClosed(raised) ==
    /\ stopPc = "close_connection"
    /\ stopPc' = IF raised THEN "raised" ELSE "done"
    /\ UNCHANGED <<gridVars, ledgerVars, stratFrame, running, sell_assets, stopLog, stops,
                   serverVars, calcVars, reentrantVars, backtestVars, tpslVars>>

(***************************************************************************)
(* server.py: the registry of running bots, POST /start and                *)
(* POST /stop/{bot_id}.  A request handler is a coroutine, split at its    *)
(* awaits; one /stop request per bot is served at a time.                  *)
(***************************************************************************)
ServerBots == 1..MaxBots

\* bot._stop(sell_assets=True) either returns or raises
StopRoutineOutcomes == {"returned", "raised"}

\* asyncio.wait_for(instance["task"], timeout=5.0): the task has finished, the
\* timeout has expired, or the task has raised
WaitForOutcomes == {"finished", "timed_out", "raised"}

\* start_bot: a registered id is refused (400); if building the bot raises the
\* request fails (500); otherwise the bot's task is created and registered
start_bot(bot_id, raised) ==
    /\ bot_id \notin active_instances
    /\ active_instances' = IF raised THEN active_instances ELSE active_instances \cup {bot_id}
    /\ UNCHANGED <<stopReq, registryVars, gridVars, ledgerVars, stratVars, stopVars, calcVars, reentrantVars, backtestVars, tpslVars>>

\* stop_bot: an unknown id is refused (404); otherwise bot._stop is awaited
StopBotBegin(bot_id) ==
    /\ stopReq[bot_id] \notin {"_stop", "wait_for"}
    /\ stopReq' = [stopReq EXCEPT ![bot_id] =
                      IF bot_id \notin active_instances THEN "not_found" ELSE "_stop"]
    /\ UNCHANGED <<active_instances, registryVars, gridVars, ledgerVars, stratVars, stopVars, calcVars, reentrantVars, backtestVars, tpslVars>>

\* bot._stop has returned, and the task is awaited with the timeout; or it
\* has raised, and the exception leaves the handler
StopRoutineDone(bot_id, outcome) ==
    /\ stopReq[bot_id] = "_stop"
    /\ stopReq' = [stopReq EXCEPT ![bot_id] =
                      IF outcome = "raised" THEN "failed" ELSE "wait_for"]
    /\ UNCHANGED <<active_instances, registryVars, gridVars, ledgerVars, stratVars, stopVars, calcVars, reentrantVars, backtestVars, tpslVars>>

\* wait_for is over: a timeout and an exception of the task are logged, and
\* `del active_instances[bot_id]` follows in every case
WaitForDone(bot_id, outcome) ==
    /\ stopReq[bot_id] = "wait_for"
    /\ active_instances' = active_instances \ {bot_id}
    /\ stopReq' = [stopReq EXCEPT ![bot_id] = "stopped"]
    /\ UNCHANGED <<registryVars, gridVars, ledgerVars, stratVars, stopVars, calcVars, reentrantVars, backtestVars, tpslVars>>

(***************************************************************************)
(* server.py with requests that interleave.  start_bot has no await        *)
(* between its test of active_instances and its assignment to it, so a     *)
(* /start request is one step.  stop_bot suspends at `await bot._stop` and *)
(* at `await asyncio.wait_for`, holding the instance it read before the    *)
(* first await; any number of /stop requests may be suspended at once.     *)
(***************************************************************************)
registryFrame == <<stopReq, gridVars, ledgerVars, stratVars, stopVars, calcVars,
                   reentrantVars, backtestVars, tpslVars>>

MoveStopRequest(r, pc) == stopRequests' = [stopRequests EXCEPT ![r].pc = pc]

\* `del active_instances[bot_id]` raises KeyError when the key is absent
DelRaisesKeyError(bot_id) == bot_id \notin active_instances

\* POST /start, the whole handler: a registered id is refused (400); if
\* building the bot raises the request fails (500); otherwise the bot's
\* task is created and the instance is registered under its id
StartRequest(bot_id, raised) ==
    /\ botsCreated < MaxInstances
    /\ IF bot_id \in active_instances
       THEN /\ startReply' = [bot_id |-> bot_id, status |-> "refused"]
            /\ UNCHANGED <<active_instances, instanceOf, botsCreated, liveBots>>
       ELSE IF raised
       THEN /\ startReply' = [bot_id |-> bot_id, status |-> "failed"]
            /\ UNCHANGED <<active_instances, instanceOf, botsCreated, liveBots>>
       ELSE /\ startReply' = [bot_id |-> bot_id, status |-> "started"]
            /\ botsCreated' = botsCreated + 1
            /\ liveBots' = liveBots \cup {<<bot_id, botsCreated + 1>>}
            /\ active_instances' = active_instances \cup {bot_id}
            /\ instanceOf' = [instanceOf EXCEPT ![bot_id] = botsCreated + 1]
    /\ UNCHANGED <<stopRequests, registryFrame>>

\* POST /stop/{bot_id} up to its first await: an unknown id is refused (404);
\* otherwise the instance is read and bot._stop(sell_assets=True) is awaited
StopRequestArrives(bot_id) ==
    /\ Len(stopRequests) < MaxStopRequests
    /\ stopRequests' = Append(stopRequests,
           IF bot_id \notin active_instances
           THEN [bot_id |-> bot_id, pc |-> "not_found", instance |-> 0]
           ELSE [bot_id |-> bot_id, pc |-> "_stop", instance |-> instanceOf[bot_id]])
    /\ UNCHANGED <<active_instances, instanceOf, botsCreated, liveBots, startReply,
                   registryFrame>>

\* bot._stop has returned, and the task is awaited with the timeout; or it
\* has raised, and the exception leaves the handler
StopRequestRoutineDone(r, outcome) ==
    /\ r \in DOMAIN stopRequests
    /\ stopRequests[r].pc = "_stop"
    /\ MoveStopRequest(r, IF outcome = "raised" THEN "failed" ELSE "wait_for")
    /\ liveBots' = IF outcome = "raised" THEN liveBots
                   ELSE liveBots \ {<<stopRequests[r].bot_id, stopRequests[r].instance>>}
    /\ UNCHANGED <<active_instances, instanceOf, botsCreated, startReply, registryFrame>>

\* wait_for is over: a timeout and an exception of the task are logged, and
\* `del active_instances[bot_id]` follows in every case; it removes whatever
\* is registered under the id now, and raises when nothing is
StopRequestWaitForDone(r, outcome) ==
    /\ r \in DOMAIN stopRequests
    /\ stopRequests[r].pc = "wait_for"
    /\ IF DelRaisesKeyError(stopRequests[r].bot_id)
       THEN /\ MoveStopRequest(r, "key_error")
            /\ UNCHANGED <<active_instances, instanceOf>>
       ELSE /\ MoveStopRequest(r, "stopped")
            /\ active_instances' = active_instances \ {stopRequests[r].bot_id}
            /\ instanceOf' = [instanceOf EXCEPT ![stopRequests[r].bot_id] = 0]
    /\ UNCHANGED <<botsCreated, liveBots, startReply, registryFrame>>

(***************************************************************************)
(* _calculate_price_grids_and_central_price in floating point.  The source *)
(* computes with binary floating-point numbers; here a number has          *)
(* MantissaBits significant bits instead of 53, and every operation rounds *)
(* its exact result to the nearest such number, ties to even.  A number is *)
(* held as a count of units, FloatOne units making 1.0, the smallest       *)
(* normal number.                                                          *)
(***************************************************************************)
FloatOne == Pow(2, MantissaBits - 1)

\* the spacing of the floating-point numbers around num / den
RECURSIVE UlpOf(_, _, _)
UlpOf(num, den, u) ==
    IF num < Pow(2, MantissaBits) * u * den THEN u ELSE UlpOf(num, den, 2 * u)

\* num / den rounded to the nearest floating-point number, ties to even
RoundDiv(num, den) ==
    LET u == UlpOf(num, den, 1)
        q == num \div (den * u)
        r == num % (den * u) IN
    u * (IF 2 * r > den * u \/ (2 * r = den * u /\ q % 2 = 1) THEN q + 1 ELSE q)

IsFloat(v) == RoundDiv(v, 1) = v

FloatOfInt(i) == RoundDiv(i * FloatOne, 1)
FloatAdd(a, b) == RoundDiv(a + b, 1)
FloatSub(a, b) == RoundDiv(a - b, 1)
FloatMul(a, b) == RoundDiv(a * b, FloatOne)
FloatDiv(a, b) == RoundDiv(a * FloatOne, b)

\* x ** (1 / m) for m a power of two (1 / m is then exact): the floating-point
\* number nearest to the m-th root of x, for x >= 1.0
FloatRoot(x, m) ==
    LET candidates == {v \in FloatOne..x : IsFloat(v)}
        target == Pow(2, m) * x * Pow(FloatOne, m - 1) IN
    CHOOSE r \in candidates :
        \A v \in candidates :
            /\ v < r => Pow(r + v, m) <= target
            /\ v > r => target <= Pow(r + v, m)

\* np.linspace(start, stop, num): arange(0, num) * step + start with
\* step = (stop - start) / (num - 1), and the last element set to stop
FloatLinspace(start, stop, num) ==
    IF num = 1 THEN <<start>>
    ELSE LET div == FloatOfInt(num - 1)
             delta == FloatSub(stop, start)
             step == FloatDiv(delta, div)
             y == [i \in 1..num |->
                      IF step = 0
                      THEN FloatMul(FloatDiv(FloatOfInt(i - 1), div), delta)
                      ELSE FloatMul(FloatOfInt(i - 1), step)] IN
         [i \in 1..num |-> IF i = num THEN stop ELSE FloatAdd(y[i], start)]

\* the loop `grids.append(current_price); current_price *= ratio`
RECURSIVE FloatGeometricRung(_, _, _)
FloatGeometricRung(bottom, ratio, i) ==
    IF i = 1 THEN bottom ELSE FloatMul(FloatGeometricRung(bottom, ratio, i - 1), ratio)

FloatPriceGrids(cfg) ==
    LET n == PointsToGenerate(cfg.num_grids) IN
    IF cfg.spacing = ARITHMETIC THEN FloatLinspace(cfg.bottom, cfg.top, n)
    ELSE IF n <= 1 THEN <<cfg.bottom>>
    ELSE LET ratio == FloatRoot(FloatDiv(cfg.top, cfg.bottom), n - 1)
         IN [i \in 1..n |-> FloatGeometricRung(cfg.bottom, ratio, i)]

FloatCentralPrice(cfg) ==
    LET n == PointsToGenerate(cfg.num_grids)
        grids == FloatPriceGrids(cfg) IN
    IF cfg.spacing = ARITHMETIC THEN FloatDiv(FloatAdd(cfg.top, cfg.bottom), FloatOfInt(2))
    ELSE IF n <= 1 THEN cfg.bottom
    ELSE grids[(Len(grids) \div 2) + 1]

\* the configurations: bottom < top between 1.0 and MaxFloatPrice, a grid count
\* up to MaxGridCount, either spacing; the step of an arithmetic grid is a
\* normal number
FloatPrices == {v \in FloatOne..(MaxFloatPrice * FloatOne) : IsFloat(v)}

FloatConfigs ==
    {cfg \in [bottom : FloatPrices, top : FloatPrices, num_grids : 1..MaxGridCount,
              spacing : {ARITHMETIC, GEOMETRIC}] :
        /\ cfg.bottom < cfg.top
        /\ (cfg.spacing = ARITHMETIC /\ cfg.num_grids > 1) =>
               FloatDiv(FloatSub(cfg.top, cfg.bottom),
                        FloatOfInt(PointsToGenerate(cfg.num_grids) - 1)) >= FloatOne}

\* the configuration is read by _extract_grid_config; nothing is returned yet
CalcInit ==
    calc \in {[config |-> cfg, returned |-> FALSE, grids |-> << >>, central_price |-> 0] :
                 cfg \in FloatConfigs}

CalculatePriceGridsAndCentralPrice ==
    /\ ~calc.returned
    /\ calc' = [calc EXCEPT !.returned = TRUE,
                            !.grids = FloatPriceGrids(calc.config),
                            !.central_price = FloatCentralPrice(calc.config)]
    /\ UNCHANGED <<gridVars, ledgerVars, stratVars, stopVars, serverVars, reentrantVars,
                   backtestVars, tpslVars>>

(***************************************************************************)
(* on_ticker_update under a ticker source that does not wait for the       *)
(* callback to finish: an invocation may begin while earlier ones are      *)
(* suspended at an await.  Every invocation has its own current_price and  *)
(* its own position; last_price and grid_orders_initialized are shared     *)
(* (nonlocal), and the gate is given the value the flag had when it was    *)
(* called.  The callback holds no lock and no queue.                       *)
(***************************************************************************)
GateAwaits == {"cancel_all_open_orders", "perform_initial_purchase", "initialize_grid_orders"}

InvocationsAt(pcs) == {i \in DOMAIN invocations : invocations[i].pc \in pcs}

MoveInvocation(i, pc) == [invocations EXCEPT ![i].pc = pc]

reentrantFrame == <<ledgerVars, runVars, tickPc, tickPrice, stopVars, serverVars, calcVars,
                    backtestVars, tpslVars>>

\* the callback is invoked with a price, whatever the other invocations are doing
CallbackInvoked(current_price, raised) ==
    /\ runPc = "listening"
    /\ ticks < MaxInvocations
    /\ ticks' = ticks + 1
    /\ IF HaltsPriceUpdates(running) \/ raised
       THEN /\ invocations' = Append(invocations, [pc |-> "returned", price |-> current_price])
            /\ UNCHANGED metrics
       ELSE /\ metrics' = metrics + 1
            /\ invocations' =
                   Append(invocations,
                          [pc |-> IF GateAlreadyPassed(grid_orders_initialized)
                                  THEN "take_profit_stop_loss" ELSE "cancel_all_open_orders",
                           price |-> current_price])
    /\ UNCHANGED <<gridVars, running, grid_orders_initialized, last_price, callVars,
                   gate_failed, reentrantFrame>>

\* invocation i: cancel_all_open_orders has returned or raised
CallbackCleanup(i, raised) ==
    /\ i \in InvocationsAt({"cancel_all_open_orders"})
    /\ cancelCalls' = cancelCalls + 1
    /\ cleanupWarnings' = IF raised THEN cleanupWarnings + 1 ELSE cleanupWarnings
    /\ zoneCalls' = zoneCalls + 1
    /\ UpdateZones(invocations[i].price)
    /\ invocations' = MoveInvocation(i, "perform_initial_purchase")
    /\ UNCHANGED <<running, grid_orders_initialized, last_price, ticks, metrics, purchaseCalls,
                   gridOrderCalls, tpslCalls, stopPublished, gate_failed, reentrantFrame>>

\* invocation i: the gate answers False, the flag and last_price are assigned
CallbackGateFails(i) ==
    /\ running' = RunningAfterGateFailure(running)
    /\ gate_failed' = TRUE
    /\ grid_orders_initialized' = FALSE
    /\ last_price' = {invocations[i].price}
    /\ invocations' = MoveInvocation(i, "returned")

\* invocation i: perform_initial_purchase has returned or raised
CallbackPurchase(i, raised) ==
    /\ i \in InvocationsAt({"perform_initial_purchase"})
    /\ purchaseCalls' = purchaseCalls + 1
    /\ IF raised THEN CallbackGateFails(i)
       ELSE /\ invocations' = MoveInvocation(i, "initialize_grid_orders")
            /\ UNCHANGED <<running, gate_failed, grid_orders_initialized, last_price>>
    /\ UNCHANGED <<gridVars, ticks, metrics, cancelCalls, cleanupWarnings, zoneCalls,
                   gridOrderCalls, tpslCalls, stopPublished, reentrantFrame>>

\* invocation i: initialize_grid_orders has returned or raised
CallbackGridOrders(i, raised) ==
    /\ i \in InvocationsAt({"initialize_grid_orders"})
    /\ gridOrderCalls' = gridOrderCalls + 1
    /\ IF raised THEN CallbackGateFails(i)
       ELSE /\ grid_orders_initialized' = TRUE
            /\ invocations' = MoveInvocation(i, AfterGate(TRUE))
            /\ UNCHANGED <<running, gate_failed, last_price>>
    /\ UNCHANGED <<gridVars, ticks, metrics, cancelCalls, cleanupWarnings, zoneCalls,
                   purchaseCalls, tpslCalls, stopPublished, reentrantFrame>>

\* invocation i: _handle_take_profit_stop_loss has answered
CallbackTakeProfitStopLoss(i, outcome) ==
    /\ i \in InvocationsAt({"take_profit_stop_loss"})
    /\ tpslCalls' = tpslCalls + 1
    /\ stopPublished' = IF outcome = "triggered" THEN stopPublished + 1 ELSE stopPublished
    /\ last_price' = IF outcome = "not_triggered" THEN {invocations[i].price} ELSE last_price
    /\ invocations' = MoveInvocation(i, "returned")
    /\ UNCHANGED <<gridVars, running, grid_orders_initialized, ticks, metrics, cancelCalls,
                   cleanupWarnings, zoneCalls, purchaseCalls, gridOrderCalls, gate_failed,
                   reentrantFrame>>

(***************************************************************************)
(* _run_backtest: the candle loop.  grid_orders_initialized and last_price *)
(* are locals of the loop, tickPrice is the close of the candle at hand;   *)
(* the gate is the one the ticker callback uses.  An exception raised by   *)
(* simulate_order_fills or by the take-profit / stop-loss handling is not  *)
(* caught: it leaves _run_backtest and run().                              *)
(***************************************************************************)
backtestFrame == <<ledgerVars, trading_mode, investment_amount, wallet_free_fiat, setupCalls,
                   tracker_fiat, listenCalls, tickPc, ticks, metrics, stopVars, serverVars,
                   calcVars, reentrantVars, tpslVars>>

\* run() in BACKTEST mode: _running = True and _run_backtest starts; without
\* data it returns at once
BacktestRun(has_data) ==
    /\ runPc = "constructed"
    /\ price_grids # << >>
    /\ trading_mode = BACKTEST
    /\ running' = TRUE
    /\ runPc' = "backtest"
    /\ btPc' = IF has_data THEN "next_candle" ELSE "ended"
    /\ UNCHANGED <<gridVars, grid_orders_initialized, last_price, tickPrice, callVars,
                   gate_failed, candle, fillCalls, backtestFrame>>

\* the loop takes the next candle and calls the gate, which answers at once
\* when the bot is initialized
BacktestCandle(current_price) ==
    /\ btPc = "next_candle"
    /\ candle < MaxCandles
    /\ candle' = candle + 1
    /\ tickPrice' = current_price
    /\ btPc' = IF GateAlreadyPassed(grid_orders_initialized) THEN "simulate_order_fills"
               ELSE "cancel_all_open_orders"
    /\ UNCHANGED <<gridVars, running, runPc, grid_orders_initialized, last_price, callVars,
                   gate_failed, fillCalls, backtestFrame>>

\* the data is exhausted (it holds at least one candle)
BacktestDataEnds ==
    /\ btPc = "next_candle"
    /\ candle > 0
    /\ btPc' = "ended"
    /\ UNCHANGED <<gridVars, running, runPc, grid_orders_initialized, last_price, tickPrice,
                   callVars, gate_failed, candle, fillCalls, backtestFrame>>

\* the gate: cancel_all_open_orders has returned or raised
BacktestGateCleanup(raised) ==
    /\ btPc = "cancel_all_open_orders"
    /\ cancelCalls' = cancelCalls + 1
    /\ cleanupWarnings' = IF raised THEN cleanupWarnings + 1 ELSE cleanupWarnings
    /\ zoneCalls' = zoneCalls + 1
    /\ UpdateZones(tickPrice)
    /\ btPc' = "perform_initial_purchase"
    /\ UNCHANGED <<running, runPc, grid_orders_initialized, last_price, tickPrice,
                   purchaseCalls, gridOrderCalls, tpslCalls, stopPublished, gate_failed,
                   candle, fillCalls, backtestFrame>>

\* `if not grid_orders_initialized: ...; continue`: _running is not read
AfterGateFailureInBacktest(is_running) == "next_candle"

\* the gate fails: _running is cleared, the gate answers False, the loop
\* stores the price and continues with the next candle
BacktestGateFails ==
    /\ running' = RunningAfterGateFailure(running)
    /\ gate_failed' = TRUE
    /\ grid_orders_initialized' = FALSE
    /\ last_price' = {tickPrice}
    /\ btPc' = AfterGateFailureInBacktest(running')

\* the gate: perform_initial_purchase has returned or raised
BacktestGatePurchase(raised) ==
    /\ btPc = "perform_initial_purchase"
    /\ purchaseCalls' = purchaseCalls + 1
    /\ IF raised THEN BacktestGateFails
       ELSE /\ btPc' = "initialize_grid_orders"
            /\ UNCHANGED <<running, gate_failed, grid_orders_initialized, last_price>>
    /\ UNCHANGED <<gridVars, runPc, tickPrice, cancelCalls, cleanupWarnings, zoneCalls,
                   gridOrderCalls, tpslCalls, stopPublished, candle, fillCalls, backtestFrame>>

\* the gate: initialize_grid_orders has returned or raised; on return the
\* loop goes on to simulate_order_fills
BacktestGateGridOrders(raised) ==
    /\ btPc = "initialize_grid_orders"
    /\ gridOrderCalls' = gridOrderCalls + 1
    /\ IF raised THEN BacktestGateFails
       ELSE /\ grid_orders_initialized' = TRUE
            /\ btPc' = "simulate_order_fills"
            /\ UNCHANGED <<running, gate_failed, last_price>>
    /\ UNCHANGED <<gridVars, runPc, tickPrice, cancelCalls, cleanupWarnings, zoneCalls,
                   purchaseCalls, tpslCalls, stopPublished, candle, fillCalls, backtestFrame>>

\* simulate_order_fills has returned or raised
BacktestSimulateFills(raised) ==
    /\ btPc = "simulate_order_fills"
    /\ fillCalls' = fillCalls + 1
    /\ btPc' = IF raised THEN "raised" ELSE "take_profit_stop_loss"
    /\ runPc' = IF raised THEN "raised" ELSE runPc
    /\ UNCHANGED <<gridVars, running, grid_orders_initialized, last_price, tickPrice, callVars,
                   gate_failed, candle, backtestFrame>>

\* mutant of AfterBacktestTpSl: the loop goes on after a trigger
AfterBacktestTpSlKeepsLooping(outcome) ==
    IF outcome = "raised" THEN "raised" ELSE "next_candle"

\* `if await self._handle_take_profit_stop_loss(current_price): break`
AfterBacktestTpSl(outcome) ==
    IF outcome = "triggered" THEN "ended"
    ELSE IF outcome = "raised" THEN "raised"
    ELSE "next_candle"

\* _handle_take_profit_stop_loss has answered
BacktestTakeProfitStopLoss(outcome) ==
    /\ btPc = "take_profit_stop_loss"
    /\ tpslCalls' = tpslCalls + 1
    /\ stopPublished' = IF outcome = "triggered" THEN stopPublished + 1 ELSE stopPublished
    /\ last_price' = IF outcome = "not_triggered" THEN {tickPrice} ELSE last_price
    /\ btPc' = AfterBacktestTpSl(outcome)
    /\ runPc' = IF outcome = "raised" THEN "raised" ELSE runPc
    /\ UNCHANGED <<gridVars, running, grid_orders_initialized, tickPrice, cancelCalls,
                   cleanupWarnings, zoneCalls, purchaseCalls, gridOrderCalls, gate_failed,
                   candle, fillCalls, backtestFrame>>

\* _run_backtest has returned: run() logs and clears _running
BacktestReturns ==
    /\ btPc = "ended"
    /\ running' = FALSE
    /\ runPc' = "returned"
    /\ btPc' = "returned"
    /\ UNCHANGED <<gridVars, grid_orders_initialized, last_price, tickPrice, callVars,
                   gate_failed, candle, fillCalls, backtestFrame>>

(***************************************************************************)
(* _handle_take_profit_stop_loss(current_price), as the ticker callback    *)
(* and the backtest loop call it once the bot is initialized.  The         *)
(* thresholds and switches are read from the config manager, the crypto    *)
(* balance from the balance tracker (it is whatever the fills have left).  *)
(* tpsl.orders lists the liquidation orders handed to the order manager    *)
(* and tpsl.published counts the STOP_BOT events handed to the event bus   *)
(* by the evaluation at hand.                                              *)
(***************************************************************************)
\* _handle_take_profit
TakeProfitHit(cfg, current_price) == cfg.tp_enabled /\ current_price >= cfg.tp_threshold

\* _handle_stop_loss
StopLossHit(cfg, current_price) == cfg.sl_enabled /\ current_price <= cfg.sl_threshold

\* mutant of EvaluateTpOrSl: stop-loss is looked at before take-profit
EvaluateTpOrSlStopLossFirst(crypto_balance, tp_hit, sl_hit) ==
    IF crypto_balance = 0 THEN "returned_false"
    ELSE IF sl_hit THEN "execute_stop_loss"
    ELSE IF tp_hit THEN "execute_take_profit"
    ELSE "returned_false"

\* _evaluate_tp_or_sl: nothing to sell means no trigger; `or` looks at
\* stop-loss only when take-profit has answered False
EvaluateTpOrSl(crypto_balance, tp_hit, sl_hit) ==
    IF crypto_balance = 0 THEN "returned_false"
    ELSE IF tp_hit THEN "execute_take_profit"
    ELSE IF sl_hit THEN "execute_stop_loss"
    ELSE "returned_false"

TpSlConfigs ==
    [tp_enabled : BOOLEAN, tp_threshold : TickPrices,
     sl_enabled : BOOLEAN, sl_threshold : TickPrices]

\* the configuration is fixed; the handler has not been called
TpSlInit ==
    tpsl \in {[config |-> cfg, crypto_balance |-> 0, price |-> 0, pc |-> "idle",
               orders |-> << >>, published |-> 0] : cfg \in TpSlConfigs}

\* the handler is called with the price of the tick, the earlier call being over
HandleTakeProfitStopLoss(current_price, crypto_balance) ==
    /\ tpsl.pc \in {"idle", "returned_true", "returned_false", "raised"}
    /\ tpsl' = [tpsl EXCEPT
                   !.price = current_price,
                   !.crypto_balance = crypto_balance,
                   !.orders = << >>,
                   !.published = 0,
                   !.pc = EvaluateTpOrSl(crypto_balance,
                                         TakeProfitHit(tpsl.config, current_price),
                                         StopLossHit(tpsl.config, current_price))]
    /\ UNCHANGED <<gridVars, ledgerVars, stratVars, stopVars, serverVars, calcVars,
                   reentrantVars, backtestVars>>

\* execute_take_profit_or_stop_loss_order has returned (STOP_BOT is published
\* next) or raised (the exception leaves the handler)
TpSlOrderExecuted(raised) ==
    /\ tpsl.pc \in {"execute_take_profit", "execute_stop_loss"}
    /\ tpsl' = [tpsl EXCEPT
                   !.orders = Append(@, IF tpsl.pc = "execute_take_profit"
                                        THEN "take_profit" ELSE "stop_loss"),
                   !.pc = IF raised THEN "raised" ELSE "publish"]
    /\ UNCHANGED <<gridVars, ledgerVars, stratVars, stopVars, serverVars, calcVars,
                   reentrantVars, backtestVars>>

\* event_bus.publish(STOP_BOT) has returned (the handler answers True) or raised
TpSlPublished(raised) ==
    /\ tpsl.pc = "publish"
    /\ tpsl' = [tpsl EXCEPT !.published = @ + 1,
                            !.pc = IF raised THEN "raised" ELSE "returned_true"]
    /\ UNCHANGED <<gridVars, ledgerVars, stratVars, stopVars, serverVars, calcVars,
                   reentrantVars, backtestVars>>

(***************************************************************************)
(* The specifications: the GridManager under its callers' protocol, the    *)
(* ledger, and the strategy loop.  Each starts the other components in a   *)
(* fixed state and leaves them alone.                                      *)
(***************************************************************************)
StratIdle ==
    /\ StratInit /\ trading_mode = LIVE /\ investment_amount = 1 /\ wallet_free_fiat = 1
    /\ StopInit

\* no /stop request is being served and no grid calculation is under study
RegistryIdle ==
    /\ stopRequests = << >>
    /\ instanceOf = [b \in ServerBots |-> 0]
    /\ botsCreated = 0
    /\ liveBots = {}
    /\ startReply = [bot_id |-> 0, status |-> "none"]

ServerIdle ==
    /\ active_instances = {} /\ stopReq = [b \in ServerBots |-> "none"]
    /\ RegistryIdle

CalcIdle == calc = << >>

\* the callback is not being invoked, no backtest is running and no
\* take-profit / stop-loss evaluation is under study
ReentrantIdle == invocations = << >>

BacktestIdle == btPc = "idle" /\ candle = 0 /\ fillCalls = 0

TpSlIdle == tpsl = << >>

LoopsIdle == ReentrantIdle /\ BacktestIdle /\ TpSlIdle

GridIdle == GridInit /\ strategy_type = SIMPLE_GRID

Init == GridInit /\ LedgerInit /\ StratIdle /\ ServerIdle /\ CalcIdle /\ LoopsIdle

Next ==
    \/ \E cfg \in Configs : InitializeGridsAndLevels(cfg)
    \/ \E p \in TickPrices : UpdateZonesBasedOnPrice(p)
    \/ \E s \in DOMAIN grid_levels, t \in DOMAIN grid_levels, ty \in {"buy", "sell"} :
           pairCalls < MaxPairCalls /\ PairGridLevels(s, t, ty)
    \/ \E p \in DOMAIN grid_levels, side \in OrderSides : MarkOrderPending(p, side)
    \/ \E p \in DOMAIN grid_levels : \E i \in DOMAIN grid_levels[p].orders : CompleteOrder(p, i)

Spec == Init /\ [][Next]_vars

LedgerSpecInit == GridIdle /\ LedgerInit /\ StratIdle /\ ServerIdle /\ CalcIdle /\ LoopsIdle

LedgerNext ==
    \/ \E b \in BotIds, o \in OrderIds, p \in LedgerPrices : add_order(b, o, p)
    \/ \E o \in OrderIds, st \in OrderStatuses : update_order_status(o, st)
    \/ \E b \in BotIds : clear_all_orders(b)

SpecLedger == LedgerSpecInit /\ [][LedgerNext]_vars

\* the grid and its pairings alone: levels are paired and paired again
PairingNext ==
    \/ \E cfg \in Configs : InitializeGridsAndLevels(cfg)
    \/ \E s \in DOMAIN grid_levels, t \in DOMAIN grid_levels, ty \in {"buy", "sell"} :
           pairCalls < MaxPairings /\ PairGridLevels(s, t, ty)

SpecPairing == Init /\ [][PairingNext]_vars

\* the grid under re-alignment: orders are placed and filled, the zones follow
\* the price, and no level is paired
ZonesNext ==
    \/ \E cfg \in Configs : InitializeGridsAndLevels(cfg)
    \/ \E p \in TickPrices : UpdateZonesBasedOnPrice(p)
    \/ \E p \in DOMAIN grid_levels, side \in OrderSides : MarkOrderPending(p, side)
    \/ \E p \in DOMAIN grid_levels : \E i \in DOMAIN grid_levels[p].orders : CompleteOrder(p, i)

SpecZones == Init /\ [][ZonesNext]_vars

\* the grid under fills: levels are paired, orders are placed and filled, and
\* the zones stay as initialization left them
CompletionNext ==
    \/ \E cfg \in Configs : InitializeGridsAndLevels(cfg)
    \/ \E s \in DOMAIN grid_levels, t \in DOMAIN grid_levels, ty \in {"buy", "sell"} :
           pairCalls < MaxPairCalls /\ PairGridLevels(s, t, ty)
    \/ \E p \in DOMAIN grid_levels, side \in OrderSides : MarkOrderPending(p, side)
    \/ \E p \in DOMAIN grid_levels : \E i \in DOMAIN grid_levels[p].orders : CompleteOrder(p, i)

SpecCompletion == Init /\ [][CompletionNext]_vars

StrategyInit == GridInit /\ LedgerInit /\ StratInit /\ StopInit /\ ServerIdle /\ CalcIdle /\ LoopsIdle

StrategyNext ==
    \/ \E cfg \in Configs : InitializeStrategy(cfg)
    \/ Run
    \/ \E raised \in BOOLEAN : SyncBalances(raised)
    \/ \E raised \in BOOLEAN : SetupBalancesDone(raised)
    \/ ListenEnds
    \/ \E p \in TickPrices, raised \in BOOLEAN : TickBegin(p, raised)
    \/ \E raised \in BOOLEAN : GateCleanup(raised)
    \/ \E raised \in BOOLEAN : GatePurchase(raised)
    \/ \E raised \in BOOLEAN : GateGridOrders(raised)
    \/ \E outcome \in {"triggered", "not_triggered", "raised"} : TakeProfitStopLoss(outcome)

SpecStrategy == StrategyInit /\ [][StrategyNext]_vars

\* the strategy loop with a ticker source that invokes the callback again
\* before an earlier invocation has returned
ReentrantNext ==
    \/ \E cfg \in Configs : InitializeStrategy(cfg)
    \/ Run
    \/ \E raised \in BOOLEAN : SyncBalances(raised)
    \/ \E raised \in BOOLEAN : SetupBalancesDone(raised)
    \/ \E p \in TickPrices, raised \in BOOLEAN : CallbackInvoked(p, raised)
    \/ \E i \in DOMAIN invocations, raised \in BOOLEAN : CallbackCleanup(i, raised)
    \/ \E i \in DOMAIN invocations, raised \in BOOLEAN : CallbackPurchase(i, raised)
    \/ \E i \in DOMAIN invocations, raised \in BOOLEAN : CallbackGridOrders(i, raised)
    \/ \E i \in DOMAIN invocations, outcome \in {"triggered", "not_triggered", "raised"} :
           CallbackTakeProfitStopLoss(i, outcome)

SpecReentrant == StrategyInit /\ [][ReentrantNext]_vars

\* a backtest run
BacktestInit ==
    /\ GridInit /\ LedgerInit /\ ServerIdle /\ CalcIdle /\ LoopsIdle
    /\ StratConstructed /\ StopInit
    /\ trading_mode = BACKTEST
    /\ investment_amount = 1
    /\ wallet_free_fiat = 1

BacktestNext ==
    \/ \E cfg \in Configs : InitializeStrategy(cfg)
    \/ \E has_data \in BOOLEAN : BacktestRun(has_data)
    \/ \E p \in TickPrices : BacktestCandle(p)
    \/ BacktestDataEnds
    \/ \E raised \in BOOLEAN : BacktestGateCleanup(raised)
    \/ \E raised \in BOOLEAN : BacktestGatePurchase(raised)
    \/ \E raised \in BOOLEAN : BacktestGateGridOrders(raised)
    \/ \E raised \in BOOLEAN : BacktestSimulateFills(raised)
    \/ \E outcome \in {"triggered", "not_triggered", "raised"} :
           BacktestTakeProfitStopLoss(outcome)
    \/ BacktestReturns

SpecBacktest == BacktestInit /\ [][BacktestNext]_vars

\* take-profit / stop-loss on its own
TakeProfitInit ==
    /\ GridIdle /\ LedgerInit /\ StratIdle /\ ServerIdle /\ CalcIdle
    /\ ReentrantIdle /\ BacktestIdle
    /\ TpSlInit

TakeProfitNext ==
    \/ \E p \in TickPrices, c \in 0..MaxCrypto : HandleTakeProfitStopLoss(p, c)
    \/ \E raised \in BOOLEAN : TpSlOrderExecuted(raised)
    \/ \E raised \in BOOLEAN : TpSlPublished(raised)

SpecTakeProfit == TakeProfitInit /\ [][TakeProfitNext]_vars

\* the server's registry
ServerInit == GridIdle /\ LedgerInit /\ StratIdle /\ ServerIdle /\ CalcIdle /\ LoopsIdle

ServerNext ==
    \/ \E b \in ServerBots, raised \in BOOLEAN : start_bot(b, raised)
    \/ \E b \in ServerBots : StopBotBegin(b)
    \/ \E b \in ServerBots, outcome \in StopRoutineOutcomes : StopRoutineDone(b, outcome)
    \/ \E b \in ServerBots, outcome \in WaitForOutcomes : WaitForDone(b, outcome)

SpecServer == ServerInit /\ [][ServerNext]_vars

\* the server's registry, with requests that interleave
RegistryNext ==
    \/ \E b \in ServerBots, raised \in BOOLEAN : StartRequest(b, raised)
    \/ \E b \in ServerBots : StopRequestArrives(b)
    \/ \E r \in 1..MaxStopRequests, outcome \in StopRoutineOutcomes :
           StopRequestRoutineDone(r, outcome)
    \/ \E r \in 1..MaxStopRequests, outcome \in WaitForOutcomes :
           StopRequestWaitForDone(r, outcome)

SpecRegistry == ServerInit /\ [][RegistryNext]_vars

\* the grid calculation on its own
GridConfigInit == GridIdle /\ LedgerInit /\ StratIdle /\ ServerIdle /\ CalcInit /\ LoopsIdle

GridConfigNext == CalculatePriceGridsAndCentralPrice

SpecGridConfig == GridConfigInit /\ [][GridConfigNext]_vars

\* the strategy loop with stop(): any trading mode, funds that suffice
ShutdownInit ==
    /\ GridIdle /\ LedgerInit /\ ServerIdle /\ CalcIdle /\ LoopsIdle
    /\ StratConstructed /\ StopInit
    /\ trading_mode \in {LIVE, PAPER_TRADING, BACKTEST}
    /\ investment_amount = 1
    /\ wallet_free_fiat = 1

ShutdownNext ==
    \/ StrategyNext
    \/ RunBacktest
    \/ BacktestEnds
    \/ \E sell \in BOOLEAN : StopBegin(sell)
    \/ \E raised \in BOOLEAN : StopCleanupStep(raised)
    \/ \E raised \in BOOLEAN : StopClosed(raised)

SpecShutdown == ShutdownInit /\ [][ShutdownNext]_vars

(***************************************************************************)
(* Steps of the GridManager, recognised by what they change: only          *)
(* complete_order closes an order, only mark_order_pending attaches one,   *)
(* only pair_grid_levels advances pairCalls, only initialization sets      *)
(* price_grids.                                                            *)
(***************************************************************************)
Rungs == DOMAIN grid_levels

\* the fill of an OPEN order of the given side on the rung, followed by
\* complete_order(rung, side)
CompleteOrderStep(p, side) ==
    /\ p \in Rungs
    /\ \E i \in DOMAIN grid_levels[p].orders :
          /\ grid_levels[p].orders[i] = [side |-> side, status |-> OPEN]
          /\ grid_levels'[p].orders[i].status = CLOSED

UpdateZonesStep ==
    /\ price_grids # << >>
    /\ price_grids' = price_grids
    /\ pairCalls' = pairCalls
    /\ \A p \in Rungs : grid_levels'[p].orders = grid_levels[p].orders

HasOpenOrder(p) == OpenOrders(grid_levels[p]) # {}

HasOrder(p, side, status) ==
    \E i \in DOMAIN grid_levels[p].orders :
        grid_levels[p].orders[i] = [side |-> side, status |-> status]

\* the rungs strictly above p, and the next one up
RungsAbove(p) == {q \in Rungs : q > p}
NextRungUp(p) == {q \in RungsAbove(p) : \A r \in RungsAbove(p) : q <= r}

(***************************************************************************)
(* C1: no duplicate live orders.  When orders are placed only where        *)
(* can_place_order allows, can_place_order never returns true for a rung   *)
(* that still has an OPEN order attached.                                  *)
(***************************************************************************)
C1_NoDuplicateLiveOrders ==
    \A p \in Rungs, side \in OrderSides : HasOpenOrder(p) => ~can_place_order(p, side)

(***************************************************************************)
(* C2: for every bot and every rung price r the ledger holds at most one   *)
(* OPEN row whose price is within the tolerance of r.                      *)
(***************************************************************************)
OpenRowsNear(bot_id, r) ==
    {i \in DOMAIN rows :
        rows[i].bot_id = bot_id /\ rows[i].status = OPEN /\ Abs(rows[i].price - r) < Tolerance}

C2_AtMostOneOpenRowPerRung ==
    \A b \in BotIds, r \in LedgerPrices : Cardinality(OpenRowsNear(b, r)) <= 1

(***************************************************************************)
(* C3: a rung in WAITING_FOR_BUY_FILL or WAITING_FOR_SELL_FILL has exactly *)
(* one OPEN order attached.                                                *)
(***************************************************************************)
C3_WaitingHasOneOpenOrder ==
    \A p \in Rungs :
        grid_levels[p].state \in WaitingStates =>
            Cardinality(OpenOrders(grid_levels[p])) = 1

(***************************************************************************)
(* C4 (as stated): after complete_order(level, SELL) the level keeps its   *)
(* state if it was WAITING_FOR_BUY_FILL and is READY_TO_BUY otherwise.     *)
(***************************************************************************)
SellCompletionPost(p) ==
    grid_levels'[p].state =
        IF grid_levels[p].state = WAITING_FOR_BUY_FILL THEN WAITING_FOR_BUY_FILL
        ELSE READY_TO_BUY

C4_SellCompletion_AsStated ==
    [][\A p \in Rungs : CompleteOrderStep(p, SELL) => SellCompletionPost(p)]_vars

(***************************************************************************)
(* C4 (amended): under SIMPLE_GRID, after complete_order(level, SELL) on a *)
(* level that is not its own paired_buy_level, the level keeps its state   *)
(* if it was WAITING_FOR_BUY_FILL and is READY_TO_BUY otherwise.           *)
(***************************************************************************)
C4_SellCompletion ==
    [][\A p \in Rungs :
          (/\ strategy_type = SIMPLE_GRID
           /\ p \notin grid_levels[p].paired_buy_level
           /\ CompleteOrderStep(p, SELL)) => SellCompletionPost(p)]_vars

\* A rung claimed for a buy (WAITING_FOR_BUY_FILL) whose own SELL order is still
\* OPEN, after fills have been completed on the grid: the fill of that SELL order
\* is the guarded case of complete_order.
C4_Witness ==
    /\ strategy_type = SIMPLE_GRID
    /\ \E p \in Rungs :
          /\ grid_levels[p].state = WAITING_FOR_BUY_FILL
          /\ p \notin grid_levels[p].paired_buy_level
          /\ HasOrder(p, SELL, OPEN)
    /\ \E q \in Rungs, side \in OrderSides : HasOrder(q, side, CLOSED)

(***************************************************************************)
(* C5: update_zones_based_on_price leaves the state of every rung in       *)
(* WAITING_FOR_BUY_FILL or WAITING_FOR_SELL_FILL unchanged; only rungs in  *)
(* READY_TO_BUY or READY_TO_SELL may have their state rewritten.           *)
(***************************************************************************)
C5_ZonesKeepBusyRungs ==
    [][UpdateZonesStep =>
          \A p \in Rungs :
              /\ grid_levels[p].state \in WaitingStates =>
                     grid_levels'[p].state = grid_levels[p].state
              /\ grid_levels'[p].state # grid_levels[p].state =>
                     grid_levels[p].state \in {READY_TO_BUY, READY_TO_SELL}]_vars

\* The zones have been re-aligned above the top rung (every rung is on the buy
\* side, which initialization never produces for three rungs) and the grid holds
\* a WAITING rung next to an idle rung that the re-alignment rewrites.
C5_Witness ==
    /\ strategy_type = SIMPLE_GRID
    /\ Len(price_grids) > 1
    /\ sorted_buy_grids = price_grids
    /\ \E p \in Rungs : grid_levels[p].state \in WaitingStates
    /\ \E q \in Rungs : grid_levels[q].state = READY_TO_BUY /\ q > central_price

(***************************************************************************)
(* C6: can_place_order equals the specified predicate for every strategy,  *)
(* side, level state and neighbour state.                                  *)
(***************************************************************************)
SpecifiedCanPlace(p, side) ==
    IF strategy_type = SIMPLE_GRID /\ side = BUY
    THEN /\ grid_levels[p].state = READY_TO_BUY
         /\ \A q \in NextRungUp(p) : grid_levels[q].state # WAITING_FOR_SELL_FILL
    ELSE IF strategy_type = SIMPLE_GRID /\ side = SELL
    THEN grid_levels[p].state = READY_TO_SELL
    ELSE IF strategy_type = HEDGED_GRID /\ side = BUY
    THEN grid_levels[p].state \in {READY_TO_BUY, READY_TO_BUY_OR_SELL}
    ELSE grid_levels[p].state \in {READY_TO_SELL, READY_TO_BUY_OR_SELL}

C6_CanPlaceOrderPredicate ==
    \A p \in Rungs, side \in OrderSides : can_place_order(p, side) = SpecifiedCanPlace(p, side)

\* the paired-overlap case: a READY_TO_BUY rung below a rung that is
\* WAITING_FOR_SELL_FILL, where can_place_order answers false
C6_Witness ==
    /\ strategy_type = SIMPLE_GRID
    /\ \E p \in Rungs :
          /\ grid_levels[p].state = READY_TO_BUY
          /\ \E q \in NextRungUp(p) : grid_levels[q].state = WAITING_FOR_SELL_FILL
          /\ ~can_place_order(p, BUY)

(***************************************************************************)
(* C7: the rungs of sorted_buy_grids together with those of                *)
(* sorted_sell_grids are exactly the rungs of price_grids, for either      *)
(* strategy type and any grid size.                                        *)
(***************************************************************************)
C7_NoRungForgotten ==
    price_grids # << >> =>
        Range(sorted_buy_grids) \cup Range(sorted_sell_grids) = Range(price_grids)

(***************************************************************************)
(* C8: with ticks delivered one at a time, once the initialization gate    *)
(* has succeeded no later step calls cancel_all_open_orders,               *)
(* update_zones_based_on_price, perform_initial_purchase or                *)
(* initialize_grid_orders again.                                           *)
(***************************************************************************)
C8_GateOnceOnly ==
    [][grid_orders_initialized =>
          UNCHANGED <<cancelCalls, zoneCalls, purchaseCalls, gridOrderCalls>>]_vars

\* a second evaluation of take-profit / stop-loss: a tick after the one that
\* passed the gate has gone through the handler
C8_Witness ==
    /\ grid_orders_initialized
    /\ gridOrderCalls = 1
    /\ tpslCalls >= 2
    /\ tickPc = "idle"

(***************************************************************************)
(* C9: once perform_initial_purchase or initialize_grid_orders has failed  *)
(* inside the gate, running is false and the bot is uninitialized, and     *)
(* every later tick returns without recording metrics, re-running the      *)
(* initialization or evaluating take-profit / stop-loss.                   *)
(***************************************************************************)
C9_GateFailureIsFatal ==
    /\ [](gate_failed => (~running /\ ~grid_orders_initialized))
    /\ [][gate_failed =>
            /\ tickPc' = "idle"
            /\ UNCHANGED <<metrics, cancelCalls, zoneCalls, purchaseCalls,
                           gridOrderCalls, tpslCalls>>]_vars

\* after the failure (which stored its price in last_price) a tick with another
\* price has been delivered and has returned
C9_Witness ==
    /\ gate_failed
    /\ last_price # {tickPrice}
    /\ tickPc = "idle"

(***************************************************************************)
(* C10: when the wallet's free fiat is less than the configured            *)
(* investment, setup_balances is never called, the tick handler is never   *)
(* handed to listen_to_ticker_updates, no tick is processed, and the run   *)
(* has ended with running = false as soon as the balances have been read.  *)
(***************************************************************************)
C10_InsufficientFundsNeverTicks ==
    wallet_free_fiat < investment_amount =>
        /\ setupCalls = 0
        /\ listenCalls = 0
        /\ ticks = 0
        /\ runPc \in {"constructed", "get_balance", "returned"}
        /\ (runPc = "returned" => ~running)

C10_Witness ==
    /\ wallet_free_fiat < investment_amount
    /\ runPc = "returned"
    /\ ~running

(***************************************************************************)
(* C13: get_active_order_at_price(bot_id, price, tolerance) returns a row  *)
(* exactly when the table holds an OPEN row of that bot whose price is     *)
(* within the tolerance, and then it returns the first such row of the     *)
(* table; otherwise it returns none.  A row of another bot or a row that   *)
(* is not OPEN is never returned.                                          *)
(***************************************************************************)
OpenHits(bot_id, price, tolerance) ==
    {i \in DOMAIN rows :
        /\ rows[i].bot_id = bot_id
        /\ rows[i].status = OPEN
        /\ Abs(rows[i].price - price) < tolerance}

C13_FindOpenAt ==
    \A b \in BotIds, p \in LedgerPrices, tol \in 0..(Tolerance + 1) :
        LET hits == OpenHits(b, p, tol)
            found == get_active_order_at_price(rows, b, p, tol) IN
        IF hits = {} THEN found = {}
        ELSE \E i \in hits :
                /\ \A j \in hits : i <= j
                /\ found = {[order_id |-> rows[i].order_id, price |-> rows[i].price]}

\* the table's first row of the bot lies within the tolerance but is not OPEN
\* any more, a later OPEN row of the bot at another price lies within it too,
\* and the lookup answers with the later row
C13_Witness ==
    \E b \in BotIds, p \in LedgerPrices :
        /\ Len(rows) = 2
        /\ rows[1].bot_id = b /\ rows[1].status # OPEN /\ rows[1].price = p
        /\ rows[2].bot_id = b /\ rows[2].status = OPEN /\ rows[2].price # p
        /\ rows[2].order_id # rows[1].order_id
        /\ get_active_order_at_price(rows, b, p, Tolerance) =
               {[order_id |-> rows[2].order_id, price |-> rows[2].price]}

(***************************************************************************)
(* C14: order status is monotone in the ledger.  update_order_status only  *)
(* moves a row from OPEN to CLOSED or CANCELED; a row that is CLOSED or    *)
(* CANCELED is never OPEN again.  (A step that keeps the number of rows    *)
(* and changes the table is an update_order_status step.)                  *)
(***************************************************************************)
UpdateStatusStep == Len(rows') = Len(rows) /\ rows' # rows

C14_StatusMonotone ==
    [][UpdateStatusStep =>
          \A i \in DOMAIN rows :
              rows'[i].status # rows[i].status =>
                  /\ rows[i].status = OPEN
                  /\ rows'[i].status \in {CLOSED, CANCELED}]_vars

(***************************************************************************)
(* C20: the ledger is partitioned by bot.  A step that changes the table   *)
(* on behalf of one bot leaves every row of every other bot as it was (the *)
(* rows of the other bots, in table order, are the same before and after), *)
(* and clear_all_orders(bot_id) leaves no row of that bot.                 *)
(***************************************************************************)
RowsOfOthers(table, bot_id) == SelectSeq(table, LAMBDA r : r.bot_id # bot_id)

C20_LedgerPartitionedByBot ==
    [][rows' # rows =>
          \E b \in BotIds :
              /\ RowsOfOthers(rows', b) = RowsOfOthers(rows, b)
              /\ Len(rows') < Len(rows) => \A i \in DOMAIN rows' : rows'[i].bot_id # b]_vars

(***************************************************************************)
(* C15: pair symmetry.  After any sequence of pair_grid_levels calls, for  *)
(* all levels A and B, if A.paired_sell_level = B then                     *)
(* B.paired_buy_level = A.                                                 *)
(***************************************************************************)
C15_PairSymmetry ==
    \A a \in Rungs, b \in Rungs :
        grid_levels[a].paired_sell_level = {b} => grid_levels[b].paired_buy_level = {a}

GateSucceeds == ~grid_orders_initialized /\ grid_orders_initialized'

C18_SuccessTickReturns_AsStated ==
    [][GateSucceeds =>
          /\ tickPc' = "idle"
          /\ UNCHANGED <<tpslCalls, stopPublished>>]_vars

(***************************************************************************)
(* C18 (amended): on the tick in which the initialization gate succeeds    *)
(* the handler marks the bot initialized and goes on, in the same tick, to *)
(* evaluate take-profit / stop-loss once; a STOP is published on that tick *)
(* only by that evaluation.                                                *)
(***************************************************************************)
C18_SuccessTickEvaluatesTpSl ==
    [][/\ GateSucceeds =>
             /\ tickPc' = "take_profit_stop_loss"
             /\ UNCHANGED <<ticks, tpslCalls, stopPublished>>
       /\ tickPc = "take_profit_stop_loss" =>
             /\ tickPc' = "idle"
             /\ tpslCalls' = tpslCalls + 1
             /\ stopPublished' \in {stopPublished, stopPublished + 1}
             /\ UNCHANGED <<ticks, grid_orders_initialized>>]_vars

\* the first tick has passed the gate, evaluated take-profit / stop-loss and
\* published STOP before returning
C18_Witness ==
    /\ grid_orders_initialized
    /\ ticks = 1
    /\ tpslCalls = 1
    /\ stopPublished = 1
    /\ tickPc = "idle"

(***************************************************************************)
(* C11: once stop() has been called and running is false, the tick handler *)
(* places no further orders: a tick that begins returns immediately, and a *)
(* tick suspended inside the initialization gate does not go on to start   *)
(* perform_initial_purchase or initialize_grid_orders.                     *)
(***************************************************************************)
C11_StopHaltsTickHandler ==
    [][(stops > 0 /\ ~running) =>
          /\ tickPc = "idle" => (tickPc' = "idle" /\ UNCHANGED metrics)
          /\ tickPc' \in {"perform_initial_purchase", "initialize_grid_orders"} =>
                tickPc' = tickPc]_vars

(***************************************************************************)
(* C12: stop(sell_assets) always sets running = false and always ends by   *)
(* closing the exchange connection, even when a cleanup step raises.  The  *)
(* cleanup calls are made only when sell_assets is true and the mode is    *)
(* not BACKTEST, in the order get_current_price, cancel_all_open_orders,   *)
(* liquidate_positions, each one only after the one before it has          *)
(* returned.                                                               *)
(***************************************************************************)
CleanupOrder == <<"get_current_price", "cancel_all_open_orders", "liquidate_positions">>

\* the calls made before close_connection
CleanupCalls ==
    IF stopLog # << >> /\ stopLog[Len(stopLog)] = "close_connection"
    THEN SubSeq(stopLog, 1, Len(stopLog) - 1)
    ELSE stopLog

C12_StopAlwaysCloses ==
    /\ [][stops' # stops => ~running']_vars
    /\ [](/\ Len(CleanupCalls) <= Len(CleanupOrder)
          /\ CleanupCalls = SubSeq(CleanupOrder, 1, Len(CleanupCalls))
          /\ CleanupCalls # << >> => (sell_assets /\ trading_mode # BACKTEST)
          /\ (stops > 0 /\ sell_assets /\ trading_mode # BACKTEST) => CleanupCalls # << >>
          /\ stopPc \in {"done", "raised"} => stopLog[Len(stopLog)] = "close_connection"
          /\ stopPc \notin {"idle", "done", "raised"} => stopLog[Len(stopLog)] = stopPc)
    /\ [][(stopPc = "cancel_all_open_orders" /\ stopPc' = "close_connection") =>
             "liquidate_positions" \notin Range(stopLog')]_vars

\* cancel_all_open_orders raised during an emergency stop: liquidation was
\* skipped, the connection was closed all the same and stop() has returned
C12_Witness ==
    /\ stopPc = "done"
    /\ sell_assets
    /\ stopLog = <<"get_current_price", "cancel_all_open_orders", "close_connection">>
    /\ ~running

(***************************************************************************)
(* C19: whenever stop_bot is invoked for a bot_id present in               *)
(* active_instances, the instance is no longer in active_instances when    *)
(* the request ends, whether the bot's task finished, timed out or raised, *)
(* and whether or not the bot's stop routine itself raised.                *)
(***************************************************************************)
StopRequestEnds(b) == stopReq[b] \in {"_stop", "wait_for"} /\ stopReq'[b] \notin {"_stop", "wait_for"}

C19_StopBotAlwaysRemoves ==
    [][\A b \in ServerBots : StopRequestEnds(b) => b \notin active_instances']_vars

(***************************************************************************)
(* C16: the number of rungs generated is odd.  For an even num_grids = k,  *)
(* k + 1 rungs are generated and the middle one, price_grids[k / 2]        *)
(* (counting from 0), equals central_price, for ARITHMETIC and for         *)
(* GEOMETRIC spacing; for an odd num_grids exactly num_grids rungs are     *)
(* generated.                                                              *)
(***************************************************************************)
C16_OddRungsAroundCentre ==
    calc.returned =>
        LET k == calc.config.num_grids IN
        IF k % 2 = 0
        THEN /\ Len(calc.grids) = k + 1
             /\ calc.grids[(k \div 2) + 1] = calc.central_price
        ELSE Len(calc.grids) = k

(***************************************************************************)
(* C21: sorted_buy_grids and sorted_sell_grids are disjoint at all times:  *)
(* no rung price appears in both views, for either strategy type, after    *)
(* initialize_grids_and_levels and after any update_zones_based_on_price.  *)
(***************************************************************************)
C21_ViewsDisjoint ==
    Range(sorted_buy_grids) \cap Range(sorted_sell_grids) = {}

(***************************************************************************)
(* C22: whenever live / paper startup succeeds, the fiat balance installed *)
(* into the BalanceTracker equals the configured investment amount         *)
(* exactly, for any wallet free fiat >= investment: extra wallet balance   *)
(* is never given to the bot.                                              *)
(***************************************************************************)
C22_FiatCappedAtInvestment ==
    /\ setupCalls > 0 =>
          /\ tracker_fiat = {investment_amount}
          /\ wallet_free_fiat >= investment_amount
    /\ runPc = "listening" => setupCalls = 1

\* the wallet holds more than the investment, the balances have been installed
\* and the ticker is being listened to
C22_Witness ==
    /\ runPc = "listening"
    /\ wallet_free_fiat > investment_amount
    /\ setupCalls = 1
    /\ tracker_fiat # {wallet_free_fiat}

(***************************************************************************)
(* C27: inside the initialization gate the steps run in the fixed order    *)
(* cancel_all_open_orders, update_zones_based_on_price,                    *)
(* perform_initial_purchase, initialize_grid_orders; a failure of the      *)
(* cleanup cancellation is swallowed and initialization proceeds, while    *)
(* initialize_grid_orders is never called if perform_initial_purchase      *)
(* failed.                                                                 *)
(***************************************************************************)
C27_GateStepOrder ==
    /\ [][/\ (tickPc' = "cancel_all_open_orders" /\ tickPc' # tickPc) =>
                /\ tickPc = "idle"
                /\ UNCHANGED <<cancelCalls, zoneCalls, purchaseCalls, gridOrderCalls>>
          /\ tickPc = "cancel_all_open_orders" =>
                /\ cancelCalls' = cancelCalls + 1
                /\ zoneCalls' = zoneCalls + 1
                /\ sorted_buy_grids' =
                       UpdateZonesBuyGrids(strategy_type, price_grids, sorted_buy_grids,
                                           tickPrice)
                /\ tickPc' = "perform_initial_purchase"
                /\ UNCHANGED <<purchaseCalls, gridOrderCalls, running, gate_failed>>
          /\ tickPc = "perform_initial_purchase" =>
                /\ purchaseCalls' = purchaseCalls + 1
                /\ UNCHANGED <<cancelCalls, zoneCalls, gridOrderCalls>>
                /\ \/ tickPc' = "initialize_grid_orders" /\ UNCHANGED gate_failed
                   \/ tickPc' = "idle" /\ gate_failed'
          /\ tickPc = "initialize_grid_orders" =>
                /\ gridOrderCalls' = gridOrderCalls + 1
                /\ UNCHANGED <<cancelCalls, zoneCalls, purchaseCalls>>
          /\ cancelCalls' # cancelCalls => tickPc = "cancel_all_open_orders"
          /\ zoneCalls' # zoneCalls => tickPc = "cancel_all_open_orders"
          /\ purchaseCalls' # purchaseCalls => tickPc = "perform_initial_purchase"
          /\ gridOrderCalls' # gridOrderCalls => tickPc = "initialize_grid_orders"]_vars
    /\ [](tickPc = "initialize_grid_orders" => ~gate_failed)

\* the cleanup cancellation raised, a warning was logged, and the gate went on
\* through the purchase and the grid orders to success
C27_Witness ==
    /\ cleanupWarnings = 1
    /\ cancelCalls = 1
    /\ zoneCalls = 1
    /\ purchaseCalls = 1
    /\ gridOrderCalls = 1
    /\ grid_orders_initialized

(***************************************************************************)
(* C23: tick callbacks are serialized per bot.  If the ticker source       *)
(* invokes the callback again while an earlier invocation is suspended     *)
(* inside the initialization gate, the second invocation does not run the  *)
(* initialization steps concurrently, so perform_initial_purchase is       *)
(* executed at most once per run.                                          *)
(***************************************************************************)
C23_TicksSerialized ==
    /\ Cardinality(InvocationsAt(GateAwaits)) <= 1
    /\ purchaseCalls + Cardinality(InvocationsAt({"perform_initial_purchase"})) <= 1

(***************************************************************************)
(* C24: after initialize_grids_and_levels there is exactly one GridLevel   *)
(* per price in price_grids and its initial state is: under SIMPLE_GRID,   *)
(* READY_TO_BUY if price <= central_price else READY_TO_SELL; under        *)
(* HEDGED_GRID, READY_TO_BUY_OR_SELL for every rung except the top rung,   *)
(* which is READY_TO_SELL.  (The step that sets price_grids is the         *)
(* initialization; a new level has no orders and no paired levels.)        *)
(***************************************************************************)
TopRung(grids) == CHOOSE p \in Range(grids) : \A q \in Range(grids) : q <= p

SpecifiedInitialState(p) ==
    IF strategy_type = SIMPLE_GRID
    THEN (IF p <= central_price' THEN READY_TO_BUY ELSE READY_TO_SELL)
    ELSE (IF p = TopRung(price_grids') THEN READY_TO_SELL ELSE READY_TO_BUY_OR_SELL)

C24_InitialLevels ==
    [][(price_grids = << >> /\ price_grids' # << >>) =>
          /\ DOMAIN grid_levels' = Range(price_grids')
          /\ Cardinality(DOMAIN grid_levels') = Len(price_grids')
          /\ \A p \in Range(price_grids') :
                grid_levels'[p] = NewGridLevel(SpecifiedInitialState(p))]_vars

\* a simple grid of three rungs right after initialization: the rung at the
\* central price is READY_TO_BUY, the rung above it READY_TO_SELL
C24_Witness ==
    /\ strategy_type = SIMPLE_GRID
    /\ Len(price_grids) = 3
    /\ pairCalls = 0
    /\ central_price = price_grids[2]
    /\ grid_levels[price_grids[1]] = NewGridLevel(READY_TO_BUY)
    /\ grid_levels[price_grids[2]] = NewGridLevel(READY_TO_BUY)
    /\ grid_levels[price_grids[3]] = NewGridLevel(READY_TO_SELL)

(***************************************************************************)
(* C25: under SIMPLE_GRID, after update_zones_based_on_price(p):           *)
(* sorted_buy_grids is exactly the rungs with price < p and                *)
(* sorted_sell_grids exactly the rungs with price >= p (both ascending),   *)
(* and every rung that was idle (READY_TO_BUY or READY_TO_SELL) is         *)
(* READY_TO_BUY if its price < p and READY_TO_SELL otherwise; under        *)
(* HEDGED_GRID the call changes neither the partitions nor any level       *)
(* state.                                                                  *)
(***************************************************************************)
Ascending(s) == \A i \in DOMAIN s, j \in DOMAIN s : i < j => s[i] < s[j]

TableCase(side) == ~(strategy_type = SIMPLE_GRID /\ side = SELL)

PairedOf(p, side) ==
    IF side = BUY THEN grid_levels[p].paired_sell_level ELSE grid_levels[p].paired_buy_level

OwnStateAfter(side) ==
    IF strategy_type = SIMPLE_GRID THEN READY_TO_SELL ELSE READY_TO_BUY_OR_SELL

PairedStateAfter(side) == IF side = BUY THEN READY_TO_SELL ELSE READY_TO_BUY

\* the paired level takes its state, no third level changes, and no level
\* changes in anything but its state (the filled order apart)
PairedAndOthersAfter(p, side) ==
    /\ \A q \in PairedOf(p, side) : grid_levels'[q].state = PairedStateAfter(side)
    /\ \A q \in Rungs \ ({p} \cup PairedOf(p, side)) : grid_levels'[q] = grid_levels[q]
    /\ \A q \in Rungs :
          /\ grid_levels'[q].paired_buy_level = grid_levels[q].paired_buy_level
          /\ grid_levels'[q].paired_sell_level = grid_levels[q].paired_sell_level
          /\ q # p => grid_levels'[q].orders = grid_levels[q].orders

C28_BacktestGateFailureIsFatal ==
    /\ [](gate_failed => btPc \notin GateAwaits)
    /\ [][gate_failed =>
            UNCHANGED <<candle, cancelCalls, zoneCalls, purchaseCalls, gridOrderCalls>>]_vars

(***************************************************************************)
(* C29: in the backtest loop simulate_order_fills is never called for a    *)
(* candle unless initialization has already succeeded (on that candle or   *)
(* an earlier one), and once take-profit or stop-loss triggers on a candle *)
(* no later candle is processed and no further fills are simulated.        *)
(***************************************************************************)
C29_FillsOnlyOnceInitialized ==
    /\ [](btPc = "simulate_order_fills" => (grid_orders_initialized /\ gridOrderCalls > 0))
    /\ [](fillCalls > 0 => gridOrderCalls > 0)
    /\ [][fillCalls' # fillCalls =>
            (btPc = "simulate_order_fills" /\ grid_orders_initialized)]_vars
    /\ [][stopPublished' > stopPublished => btPc' = "ended"]_vars
    /\ [][stopPublished > 0 =>
            /\ UNCHANGED <<candle, fillCalls, tickPrice, tpslCalls>>
            /\ btPc' \in {"ended", "returned"}]_vars

\* initialization succeeded on the first candle, fills were simulated for two
\* candles, take-profit / stop-loss triggered on the second and the run
\* returned although the data held more candles than that
C29_Witness ==
    /\ btPc = "returned"
    /\ stopPublished = 1
    /\ candle = 2
    /\ fillCalls = 2
    /\ purchaseCalls = 1
    /\ gridOrderCalls = 1
    /\ ~running

(***************************************************************************)
(* C30: on an initialized tick, STOP_BOT is published exactly when         *)
(* take-profit or stop-loss triggers on that tick, which requires a        *)
(* non-zero crypto balance and either (take-profit enabled and price >=    *)
(* its threshold) or (stop-loss enabled and price <= its threshold); when  *)
(* it triggers, exactly one liquidation order is executed (take-profit     *)
(* takes precedence over stop-loss) before the publish.  (The handler      *)
(* answers True exactly when it has published; it answers False exactly    *)
(* when the conditions do not hold, and then nothing was executed or       *)
(* published.)                                                             *)
(***************************************************************************)
TakeProfitCondition ==
    tpsl.config.tp_enabled /\ tpsl.price >= tpsl.config.tp_threshold

StopLossCondition ==
    tpsl.config.sl_enabled /\ tpsl.price <= tpsl.config.sl_threshold

TriggerCondition ==
    tpsl.crypto_balance # 0 /\ (TakeProfitCondition \/ StopLossCondition)

C30_StopPublishedOnTrigger ==
    /\ Len(tpsl.orders) <= 1
    /\ tpsl.published <= 1
    /\ tpsl.orders # << >> =>
          /\ TriggerCondition
          /\ tpsl.orders[1] = IF TakeProfitCondition THEN "take_profit" ELSE "stop_loss"
    /\ tpsl.pc = "publish" => (Len(tpsl.orders) = 1 /\ tpsl.published = 0)
    /\ tpsl.published > 0 => (TriggerCondition /\ Len(tpsl.orders) = 1)
    /\ tpsl.pc = "returned_true" <=> (tpsl.published = 1 /\ tpsl.pc # "raised")
    /\ tpsl.pc = "returned_false" <=>
          (tpsl.pc \notin {"idle", "raised"} /\ ~TriggerCondition)
    /\ tpsl.pc = "returned_false" => (tpsl.orders = << >> /\ tpsl.published = 0)

\* take-profit and stop-loss are both enabled and both hit at the price of the
\* tick, with crypto to sell: the take-profit order alone was executed, STOP_BOT
\* was published once and the handler has answered True
C30_Witness ==
    /\ tpsl.pc = "returned_true"
    /\ tpsl.crypto_balance # 0
    /\ TakeProfitCondition
    /\ StopLossCondition
    /\ tpsl.orders = <<"take_profit">>
    /\ tpsl.published = 1

(***************************************************************************)
(* C31: the bot registry stays consistent under interleaved requests.  A   *)
(* /start request for a bot_id that is registered does not succeed and     *)
(* leaves active_instances unchanged, so that two /start requests for the  *)
(* same bot_id never both succeed; and when two /stop requests for the     *)
(* same active bot_id overlap at their awaits, each of them, once its      *)
(* awaits are over, completes without error and leaves the bot_id absent   *)
(* from active_instances.                                                  *)
(***************************************************************************)
StartSucceeds(b) == botsCreated' = botsCreated + 1 /\ instanceOf'[b] = botsCreated'

StartRefused == startReply' # startReply /\ startReply'.status = "refused"

\* both requests passed the membership test on the same registration: each
\* was received before the other reached its `del`
StopRequestsOverlap(r, q) ==
    /\ r # q
    /\ stopRequests[r].instance # 0
    /\ stopRequests[q].bot_id = stopRequests[r].bot_id
    /\ stopRequests[q].instance = stopRequests[r].instance

StopRequestCompletes(r) == stopRequests[r].pc = "wait_for" /\ stopRequests'[r].pc # "wait_for"

\* a /start request succeeds only for an id that is not registered, and a
\* refused one leaves the registry as it was
StartsExclusiveStep ==
    /\ \A b \in ServerBots : StartSucceeds(b) => b \notin active_instances
    /\ StartRefused => active_instances' = active_instances

\* a /stop request that overlapped another one for the same bot ends with
\* "stopped" and with the id absent
OverlappingStopsCompleteStep ==
    \A r, q \in DOMAIN stopRequests :
        StopRequestsOverlap(r, q) /\ StopRequestCompletes(r) =>
            /\ stopRequests'[r].pc = "stopped"
            /\ stopRequests[r].bot_id \notin active_instances'

\* C31: under interleaved requests every step keeps /start requests exclusive
\* and lets overlapping /stop requests complete without error
C31_RegistryConsistent == [][StartsExclusiveStep /\ OverlappingStopsCompleteStep]_vars

\* the start half alone, which the code satisfies
StartsExclusive == [][StartsExclusiveStep]_vars

\* at most one bot whose _stop has not returned exists per bot_id; the `del`
\* of a /stop request that held an earlier bot unregisters a later one that
\* is still running, and the id can then be started again
OneLiveBotPerId == \A x, y \in liveBots : x[1] = y[1] => x = y

====
